---- MODULE Spec2Model ----
(***************************************************************************)
(* A model of the resilient request orchestrator of apikeyrotator:         *)
(* the thread-safe BaseKeyRotator / APIKeyRotator of core/rotator.py, the  *)
(* round-robin strategy of rotation_strategies.py and the ErrorClassifier  *)
(* of error_classifier.py.                                                 *)
(*                                                                         *)
(* Every region the code runs under its locks (get_next_key,               *)
(* _update_key_metrics, _remove_key_safely, the body of                    *)
(* refresh_keys_from_provider) is one atomic action; the code between two  *)
(* such regions touches only the caller's own locals and is folded into    *)
(* the action that precedes it.  Callers interleave between actions.       *)
(*                                                                         *)
(* The middlewares (CachingMiddleware, RetryMiddleware,                    *)
(* RateLimitMiddleware.on_error) and the rotators' middleware pipeline are *)
(* modelled on their own, each under its own specification; a call of a    *)
(* hook is one action.                                                     *)
(*                                                                         *)
(* Further components, each under its own specification: the saved         *)
(* headers of _prepare_headers_and_cookies, the synchronous and the        *)
(* asynchronous request loop side by side, the table and the pause of      *)
(* RateLimitMiddleware, and HealthBasedStrategy with the rotator's         *)
(* reset_key_health.                                                       *)
(***************************************************************************)
EXTENDS Integers, Sequences, FiniteSets, TLC

\* ------------------------------------------------------------------ bounds
MaxKeys == 2          \* largest pool / provider list
MaxRetriesCfg == 2    \* largest max_retries a rotator is configured with
MaxRefresh == 1       \* calls of refresh_keys_from_provider in one run
MaxHandled == 1       \* times a middleware on_error reports handled, per request
ConcurrentKeys == 2   \* pool of the rotator that concurrent callers share
ConcurrentRetries == 1 \* largest max_retries of that rotator
RotationRetries == 2   \* max_retries of the rotator whose callers retry
MaxCacheCalls == 4    \* before_request / after_request calls on one cache
MaxCacheEntries == 2  \* largest max_cache_size a cache is configured with
MaxRetryCalls == 4    \* on_error / after_request calls on one RetryMiddleware
MaxRateLimitCalls == 3 \* on_error calls on one RateLimitMiddleware
MaxMiddlewares == 3   \* longest middleware list of a rotator
MaxHeaderRequests == 3 \* request attempts whose headers are followed
MaxTableCalls == 3     \* calls on a RateLimitMiddleware whose table is nearly full
MaxPauseCalls == 3     \* calls on a RateLimitMiddleware that pauses its callers
MaxHealthCalls == 4    \* calls on a HealthBasedStrategy and its rotator
MaxRaceUpdates == 3    \* metric updates started by the concurrent updaters
MaxLockOps == 3        \* operations started by the threads that take locks
MaxLegacyRequests == 3 \* requests made through a legacy rotator

Callers == {"c1", "c2"}

\* Key material.  A key is an opaque string; only its shape matters to the
\* header heuristic, so each name carries a fixed shape.
KeyNames == <<"sk-1", "x32-2", "raw-3", "pk-4", "x32-5">>
AllKeys == SubSeq(KeyNames, 1, MaxKeys)


Range(s) == {s[i] : i \in 1..Len(s)}

\* key.startswith("sk-") or key.startswith("pk-") / len(key) == 32 / else
KeyShape(key) ==
    IF key \in {"sk-1", "pk-4"} THEN "prefix"
    ELSE IF key \in {"x32-2", "x32-5"} THEN "len32"
    ELSE "other"

Statuses == {200, 401, 429, 501, 503}
Exceptions == {"ConnectionError", "Timeout", "RequestException"}
ErrorType == {"rate_limit", "temporary", "permanent", "network", "unknown"}

\* ------------------------------------------------------------- variables
VARIABLES
    keys,                  \* self.keys
    key_metrics,           \* self._key_metrics: key -> KeyMetrics
    rotation_strategy,     \* self.rotation_strategy: [kind, keys, current_index]
    max_retries,           \* self.max_retries
    should_retry_callback, \* self.should_retry_callback
    middlewares,           \* self.middlewares
    secret_provider,       \* self.secret_provider: the key lists it can return
    upstream,              \* what the transport can answer in this run
    caller_headers,        \* the headers= arguments callers pass in this run
    th,                    \* per caller: position in request() and its locals
    refreshes,             \* calls of refresh_keys_from_provider so far
    hist,                  \* history: evictions, keys handed out, sends
    cl,                    \* classify_error exercised on its own: input, result
    now,                   \* time.time(), in whole seconds
    caching,               \* a CachingMiddleware: configuration, cache, hits, misses
    cache_hist,            \* history of the cache's use: last call, transport sends
    retry,                 \* a RetryMiddleware: configuration, retry_counts
    rate_limit,            \* a RateLimitMiddleware: rate_limits and its last call
    pipeline,              \* a rotator's middleware list run over one request
    header_store,          \* save_sensitive_headers, config["successful_headers"]
    variants,              \* a sync and an async request fed the same outcomes
    limiter,               \* a RateLimitMiddleware: its table and its waiters
    health,                \* a HealthBasedStrategy and the rotator's key metrics
    locking,               \* the threads that take the locks, and where each is
    keyed,                 \* the requests last given to _get_cache_key, and their keys
    legacy                 \* a rotator of the legacy module apikeyrotator/rotator.py

\* parts of the rotator that are exercised on their own
component_vars == <<header_store, variants, limiter, health, locking, keyed, legacy>>

\* what is fixed once the rotator is constructed and the run is set up, and
\* what the steps of request() modelled below do not touch
config == <<max_retries, should_retry_callback, middlewares, secret_provider,
            upstream, caller_headers, component_vars>>

\* the rotator and the classifier
rotator_vars == <<keys, key_metrics, rotation_strategy, config, th, refreshes, hist, cl>>

\* the middlewares, exercised on their own
middleware_vars == <<now, caching, cache_hist, retry, rate_limit, pipeline>>

vars == <<rotator_vars, middleware_vars>>

\* ------------------------------------------------------- ErrorClassifier
\* A response is the set holding its status code; {} is None.
\* An exception is its class name; "none" is None.
classify_error_strict4xx(response, exception) ==
    IF exception # "none"
    THEN IF exception \in {"ConnectionError", "Timeout"} THEN "network" ELSE "unknown"
    ELSE IF response = {} THEN "unknown"
    ELSE LET status_code == CHOOSE s \in response : TRUE IN
         IF status_code = 429 THEN "rate_limit"
         ELSE IF status_code \in {500, 502, 503, 504} THEN "temporary"
         ELSE IF status_code \in {401, 403} THEN "permanent"
         ELSE IF status_code > 400 /\ status_code < 500 THEN "permanent"
         ELSE "unknown"

classify_error(response, exception) ==
    IF exception # "none"
    THEN IF exception \in {"ConnectionError", "Timeout"} THEN "network" ELSE "unknown"
    ELSE IF response = {} THEN "unknown"
    ELSE LET status_code == CHOOSE s \in response : TRUE IN
         IF status_code = 429 THEN "rate_limit"
         ELSE IF status_code \in {500, 502, 503, 504} THEN "temporary"
         ELSE IF status_code \in {401, 403} THEN "permanent"
         ELSE IF status_code >= 400 /\ status_code < 500 THEN "permanent"
         ELSE "unknown"

\* ------------------------------------------------------------ strategies
\* KeyMetrics.__init__
KeyMetrics(key) == [consecutive_failures |-> 0, is_healthy |-> TRUE]

\* failure_threshold of the health bookkeeping
FailureThreshold == 3

\* KeyMetrics.update_from_request(success, ...)
update_from_request(m, success) ==
    IF success
    THEN [m EXCEPT !.consecutive_failures = 0, !.is_healthy = TRUE]
    ELSE [m EXCEPT !.consecutive_failures = @ + 1,
                   !.is_healthy = IF m.consecutive_failures + 1 >= FailureThreshold
                                  THEN FALSE ELSE @]

\* create_rotation_strategy(kind, keys): a fresh strategy over a copy of keys
create_rotation_strategy(kind, ks) ==
    [kind |-> kind, keys |-> ks, current_index |-> 0]

\* RoundRobinStrategy.get_next_key: the key under the cursor (0-based index)
RoundRobinKey(strategy) == strategy.keys[strategy.current_index + 1]

RoundRobinAdvanceStays(strategy) == strategy

RoundRobinAdvanceNoWrap(strategy) ==
    IF strategy.current_index + 1 >= Len(strategy.keys)
    THEN strategy
    ELSE [strategy EXCEPT !.current_index = @ + 1]

\* RoundRobinStrategy.get_next_key: the cursor after the call
RoundRobinAdvance(strategy) ==
    [strategy EXCEPT !.current_index = (@ + 1) % Len(strategy.keys)]

\* ------------------------------------------------------- BaseKeyRotator
\* list.remove(key) guarded by "if key in self.keys": drops the first occurrence
RemoveFirst(ks, key) ==
    IF key \notin Range(ks) THEN ks
    ELSE LET i == CHOOSE j \in 1..Len(ks) :
                     /\ ks[j] = key
                     /\ \A l \in 1..(j - 1) : ks[l] # key
         IN  SubSeq(ks, 1, i - 1) \o SubSeq(ks, i + 1, Len(ks))

RemoveFromPoolKeepsKey(ks, key) == ks

\* _remove_key_safely: the pool after the removal
RemoveFromPool(ks, key) == RemoveFirst(ks, key)

\* _remove_key_safely: the metrics map after the removal
RemoveFromMetrics(metrics, key) ==
    [k \in (DOMAIN metrics) \ {key} |-> metrics[k]]

RebuildAfterRemovalKeepsStrategy(strategy, ks) == strategy

\* _remove_key_safely: the strategy classes of strategy_map; "custom" stands
\* for any other class, such as a caller's own BaseRotationStrategy
MappedKinds == {"round_robin", "random", "weighted", "lru", "health_based"}
StrategyKinds == MappedKinds \cup {"custom"}

\* _remove_key_safely: strategy_map.get(type(self.rotation_strategy), 'round_robin')
strategy_name(kind) == IF kind \in MappedKinds THEN kind ELSE "round_robin"

\* _remove_key_safely: the strategy is recreated only if keys remain
RebuildAfterRemoval(strategy, ks) ==
    IF ks # <<>> THEN create_rotation_strategy(strategy_name(strategy.kind), ks)
    ELSE strategy

\* _update_key_metrics: only a key that still has a record is updated
UpdateKeyMetrics(metrics, key, success) ==
    IF key \in DOMAIN metrics
    THEN [metrics EXCEPT ![key] = update_from_request(@, success)]
    ELSE metrics

\* _prepare_headers_and_cookies: headers start as a copy of the caller's
\* headers (kwargs.get("headers")); the credential header is inferred from the
\* key's shape only when no Authorization header is present.
\* A header value is "absent", "caller" (a value the caller supplied) or the
\* key whose credential it carries.
\* No header_callback is configured (the default).
PrepareHeaders(key, custom_headers) ==
    IF custom_headers.Authorization = "absent"
    THEN IF KeyShape(key) = "prefix" THEN [custom_headers EXCEPT !.Authorization = key]
         ELSE IF KeyShape(key) = "len32" THEN [custom_headers EXCEPT !.XAPIKey = key]
         ELSE [custom_headers EXCEPT !.Authorization = key]
    ELSE custom_headers

\* ---------------------------------------------------------- APIKeyRotator
\* the should_retry_callback applied to a response
CallbackSays(cb, status) ==
    \/ cb = "retry503" /\ status = 503
    \/ cb = "retry501" /\ status = 501

\* _should_retry
ShouldRetry(cb, status) ==
    IF cb # "none" THEN CallbackSays(cb, status)
    ELSE classify_error({status}, "none") \in {"rate_limit", "temporary"}

DecideRateLimitEvicts(cb, status) ==
    LET error_type == classify_error({status}, "none") IN
    IF error_type \in {"permanent", "rate_limit"} THEN "evict"
    ELSE IF error_type = "temporary" THEN "retry"
    ELSE IF ~ShouldRetry(cb, status) THEN "return"
    ELSE "retry"

\* request: the if/elif chain on the classified response
Decide(cb, status) ==
    LET error_type == classify_error({status}, "none") IN
    IF error_type = "permanent" THEN "evict"
    ELSE IF error_type = "rate_limit" THEN "retry"
    ELSE IF error_type = "temporary" THEN "retry"
    ELSE IF ~ShouldRetry(cb, status) THEN "return"
    ELSE "retry"

AttemptAfterEvictionConsumed(attempt) == attempt + 1

\* request: "continue" after an eviction does not touch the attempt counter
AttemptAfterEviction(attempt) == attempt

CaughtNetworkOnly(exception) == exception \in {"ConnectionError", "Timeout"}

\* request: "except requests.RequestException" catches every transport error
Caught(exception) ==
    exception \in {"ConnectionError", "Timeout", "RequestException"}

\* success flag handed to _update_key_metrics
IsSuccess(error_type) == error_type \notin {"rate_limit", "temporary", "permanent"}


\* ------------------------------------------------- middlewares at rest
NoCall == [op |-> "none", key |-> <<>>, oversize |-> FALSE, eligible |-> TRUE,
           sent |-> FALSE, evicted |-> {}]

CachingIdle ==
    [ttl |-> 1, cache_only_get |-> TRUE, max_cache_size |-> 1,
     max_cache_size_bytes |-> 1, max_cacheable_size |-> 1,
     cache |-> <<>>, hits |-> 0, misses |-> 0]

CacheHistIdle == [last |-> NoCall, calls |-> 0, recency |-> <<>>]

RetryIdle == [max_retries |-> 1, backoff_factor |-> 2, max_tracked_urls |-> 1,
              retry_counts |-> <<>>,
              last |-> [op |-> "none", url |-> "", status_code |-> 0,
                        handled |-> FALSE, wait |-> [num |-> 0, den |-> 1],
                        evicted |-> {}],
              calls |-> 0, delays |-> [url \in {} |-> <<>>]]

RateLimitIdle == [rate_limits |-> [key \in {} |-> [reset_time |-> 0]],
                  last |-> [error_info |-> [key |-> "", response_info |-> {}],
                            handled |-> FALSE, at |-> 0],
                  calls |-> 0]

PipelineIdle == [rotator |-> "sync", middlewares |-> <<>>, pc |-> "start",
                 hook |-> "none", invoked |-> <<>>, value |-> <<>>,
                 handled |-> FALSE, raised |-> FALSE]

NoHeaderRequest == [domain |-> "none", status |-> 200, headers |-> {}]

HeaderStoreIdle ==
    [save_sensitive_headers |-> FALSE, successful_headers |-> [d \in {} |-> {}],
     last |-> NoHeaderRequest, calls |-> 0]

NoRun == [keys |-> <<>>, strategy |-> <<>>, attempt |-> 0, retries |-> 0,
          sends |-> 0, evicted |-> {}, result |-> "none"]

VariantsIdle == [script |-> <<>>, sync |-> NoRun, async |-> NoRun]

NotWaiting == [key |-> "", seen |-> 0, until |-> 0, waited |-> FALSE]

LimiterIdle ==
    [pause_on_limit |-> TRUE, max_tracked_keys |-> 0, rate_limits |-> <<>>,
     request_count |-> 0, waiting |-> [c \in Callers |-> NotWaiting],
     last |-> NotWaiting, returns |-> 0, calls |-> 0]

LockingIdle == [threads |-> <<>>, started |-> 0]

KeyedIdle == <<>>

LegacyIdle == <<>>

HealthIdle ==
    [failure_threshold |-> 0, health_check_interval |-> 0,
     metrics |-> <<>>, rotator_metrics |-> <<>>, shared |-> FALSE, recovered |-> {},
     last |-> [op |-> "none", key |-> "", success |-> FALSE, result |-> ""],
     calls |-> 0]

ComponentsIdle ==
    /\ header_store = HeaderStoreIdle
    /\ variants = VariantsIdle
    /\ limiter = LimiterIdle
    /\ health = HealthIdle
    /\ locking = LockingIdle
    /\ keyed = KeyedIdle
    /\ legacy = LegacyIdle

MiddlewaresAtRest ==
    /\ now = 0
    /\ caching = CachingIdle
    /\ cache_hist = CacheHistIdle
    /\ retry = RetryIdle
    /\ rate_limit = RateLimitIdle
    /\ pipeline = PipelineIdle

MiddlewaresIdle == MiddlewaresAtRest /\ ComponentsIdle

\* ------------------------------------------------------------------ Init
\* The provider hands out a suffix of the key universe, the rotator is built
\* over a prefix of it: overlapping, disjoint and identical lists all occur.
InitialPools == {SubSeq(AllKeys, 1, n) : n \in 1..MaxKeys}
ProviderLists == {SubSeq(AllKeys, i, MaxKeys) : i \in 1..MaxKeys}

\* The transport of a run: the statuses it may answer and the errors it may
\* raise.  A run against an upstream that only ever answers 429 is a run in
\* which every attempt is rate limited, and so on.
Upstreams ==
    {[statuses |-> Statuses, exceptions |-> Exceptions],
     [statuses |-> {429}, exceptions |-> {}],
     [statuses |-> {401}, exceptions |-> {}],
     [statuses |-> {200, 429, 503}, exceptions |-> {}],
     [statuses |-> {}, exceptions |-> Exceptions]}

IdleCaller ==
    [pc |-> "idle", attempt |-> 0, key |-> "none",
     headers |-> [Authorization |-> "absent", XAPIKey |-> "absent"],
     response |-> {}, exception |-> "none", result |-> "none",
     handled |-> 0]

ClIdle == [response |-> {}, exception |-> "none", result |-> "unset"]

\* BaseKeyRotator.__init__ over the pool api_keys; "trace" says whether the
\* history also records the keys handed out and the transport sends, "follow"
\* whether it records who selected last and whose attempt was just retried
Construct(api_keys, trace, follow) ==
    /\ keys = api_keys
    /\ key_metrics = [k \in Range(api_keys) |-> KeyMetrics(k)]
    /\ rotation_strategy = create_rotation_strategy("round_robin", api_keys)
    /\ refreshes = 0
    /\ hist = [evicted |-> {}, evicted_ever |-> {}, installed |-> api_keys,
               returned |-> <<>>, stale |-> FALSE, sends |-> 0, ok |-> 0,
               retried |-> {}, last_selector |-> "none", trace |-> trace,
               follow |-> follow]

\* One caller at a time: every configuration, every upstream.
Init ==
    /\ \E api_keys \in InitialPools : Construct(api_keys, TRUE, FALSE)
    /\ max_retries \in 1..MaxRetriesCfg
    /\ should_retry_callback \in {"none", "retry503", "retry501"}
    /\ middlewares \in {"none", "handler"}
    /\ secret_provider = ProviderLists \cup {<<>>}
    /\ upstream \in Upstreams
    /\ caller_headers = BOOLEAN
    /\ cl = ClIdle
    /\ MiddlewaresIdle
    /\ th = [c \in {"c1"} |-> IdleCaller]

\* Two callers share one rotator built with the defaults (no callback, no
\* middleware) over the whole key universe.
ConcurrentUpstream == [statuses |-> {200, 401, 429}, exceptions |-> {"Timeout"}]

InitConcurrent ==
    /\ Construct(SubSeq(KeyNames, 1, ConcurrentKeys), FALSE, FALSE)
    /\ max_retries \in 1..ConcurrentRetries
    /\ should_retry_callback = "none"
    /\ middlewares = "none"
    /\ secret_provider = {SubSeq(KeyNames, 2, ConcurrentKeys + 1)}
    /\ upstream = ConcurrentUpstream
    /\ caller_headers = {FALSE}
    /\ cl = ClIdle
    /\ MiddlewaresIdle
    /\ th = [c \in Callers |-> IdleCaller]

\* --------------------------------------------------------------- actions
Raise(c, error) == [th EXCEPT ![c].pc = "done", ![c].result = error]

\* request(): argument validation, then the loop starts with attempt = 0
Request(c) ==
    /\ th[c].pc = "idle"
    /\ \E url_empty \in BOOLEAN, own_auth \in caller_headers :
         IF url_empty
         THEN th' = Raise(c, "ValueError")
         ELSE th' = [th EXCEPT ![c].pc = "loop",
                               ![c].attempt = 0,
                               ![c].headers =
                                   [Authorization |-> IF own_auth THEN "caller" ELSE "absent",
                                    XAPIKey |-> "absent"]]
    /\ UNCHANGED <<keys, key_metrics, rotation_strategy, config, refreshes, hist, cl, middleware_vars>>

\* request(): the loop test, get_next_key, _prepare_headers_and_cookies
\* and kwargs["headers"] = headers
NextAttempt(c) ==
    /\ th[c].pc = "loop"
    /\ IF th[c].attempt >= max_retries
       THEN /\ th' = Raise(c, "AllKeysExhaustedError")
            /\ hist' = [hist EXCEPT !.retried = @ \ {c}]
            /\ UNCHANGED rotation_strategy
       ELSE IF keys = <<>>
       THEN /\ th' = Raise(c, "AllKeysExhaustedError")
            /\ hist' = [hist EXCEPT !.retried = @ \ {c}]
            /\ UNCHANGED rotation_strategy
       ELSE LET key == RoundRobinKey(rotation_strategy) IN
            /\ rotation_strategy' = RoundRobinAdvance(rotation_strategy)
            /\ th' = [th EXCEPT ![c].pc = "send",
                                ![c].key = key,
                                ![c].headers = PrepareHeaders(key, th[c].headers)]
            /\ hist' = [hist EXCEPT !.returned = IF hist.trace THEN Append(@, key) ELSE @,
                                    !.retried = @ \ {c},
                                    !.last_selector = IF hist.follow THEN c ELSE @]
    /\ UNCHANGED <<keys, key_metrics, config, refreshes, cl, middleware_vars>>

\* session.request(method, url, **kwargs): the transport answers or raises
Send(c) ==
    /\ th[c].pc = "send"
    /\ \/ \E status \in upstream.statuses :
            /\ th' = [th EXCEPT ![c].pc = "respond", ![c].response = {status}]
            /\ hist' = [hist EXCEPT
                          !.sends = IF hist.trace THEN @ + 1 ELSE @,
                          !.ok = IF hist.trace /\ status \in 200..299 THEN @ + 1 ELSE @]
       \/ \E e \in upstream.exceptions :
            /\ th' = [th EXCEPT ![c].pc = "except", ![c].exception = e]
            /\ hist' = [hist EXCEPT !.sends = IF hist.trace THEN @ + 1 ELSE @]
    /\ UNCHANGED <<keys, key_metrics, rotation_strategy, config, refreshes, cl, middleware_vars>>

\* request(): "attempt += 1" before the backoff of a retried attempt
ConsumeAttemptNever(attempt) == attempt
ConsumeAttempt(attempt) == attempt + 1

\* request(): classify the response, _update_key_metrics, then the branch
Respond(c) ==
    /\ th[c].pc = "respond"
    /\ LET status == CHOOSE s \in th[c].response : TRUE
           error_type == classify_error(th[c].response, "none")
           decision == Decide(should_retry_callback, status)
       IN  /\ key_metrics' = UpdateKeyMetrics(key_metrics, th[c].key, IsSuccess(error_type))
           /\ th' = IF decision = "evict"
                    THEN [th EXCEPT ![c].pc = "evict", ![c].response = {}]
                    ELSE IF decision = "return"
                    THEN [th EXCEPT ![c].pc = "done", ![c].result = "response",
                                    ![c].response = {}]
                    ELSE [th EXCEPT ![c].pc = "loop", ![c].response = {},
                                    ![c].attempt = ConsumeAttempt(@)]
           /\ hist' = [hist EXCEPT !.retried =
                          IF hist.follow /\ error_type \in {"rate_limit", "temporary"}
                          THEN @ \cup {c} ELSE @]
    /\ UNCHANGED <<keys, rotation_strategy, config, refreshes, cl, middleware_vars>>

\* _remove_key_safely(key), under the keys lock and the metrics lock
RemoveKeySafely(c) ==
    /\ th[c].pc = "evict"
    /\ LET key == th[c].key
           ks == RemoveFromPool(keys, key)
       IN  /\ keys' = ks
           /\ key_metrics' = RemoveFromMetrics(key_metrics, key)
           /\ rotation_strategy' = RebuildAfterRemoval(rotation_strategy, ks)
           /\ th' = [th EXCEPT ![c].pc = "evicted"]
           /\ hist' = [hist EXCEPT !.evicted = @ \cup {key},
                                   !.evicted_ever = @ \cup {key},
                                   !.returned = <<>>,
                                   !.last_selector = "none",
                                   !.stale = IF ks # <<>> THEN FALSE ELSE @]
    /\ UNCHANGED <<config, refreshes, cl, middleware_vars>>

\* request(): "if not self.keys: raise" else "continue"
AfterEviction(c) ==
    /\ th[c].pc = "evicted"
    /\ IF keys = <<>>
       THEN th' = Raise(c, "AllKeysExhaustedError")
       ELSE th' = [th EXCEPT ![c].pc = "loop",
                             ![c].attempt = AttemptAfterEviction(@)]
    /\ UNCHANGED <<keys, key_metrics, rotation_strategy, config, refreshes, hist, cl, middleware_vars>>

\* request(): the except clause, the on_error chain, the failure update
HandleException(c) ==
    /\ th[c].pc = "except"
    /\ IF ~Caught(th[c].exception)
       THEN /\ th' = [Raise(c, th[c].exception) EXCEPT ![c].exception = "none"]
            /\ UNCHANGED key_metrics
       ELSE \E handled \in (IF middlewares = "handler" /\ th[c].handled < MaxHandled
                            THEN BOOLEAN ELSE {FALSE}) :
              IF handled
              THEN /\ th' = [th EXCEPT ![c].pc = "loop", ![c].exception = "none",
                                       ![c].handled = @ + 1]
                   /\ UNCHANGED key_metrics
              ELSE /\ key_metrics' = UpdateKeyMetrics(key_metrics, th[c].key, FALSE)
                   /\ th' = [th EXCEPT ![c].pc = "loop", ![c].exception = "none",
                                       ![c].attempt = ConsumeAttempt(@)]
    /\ UNCHANGED <<keys, rotation_strategy, config, refreshes, hist, cl, middleware_vars>>

\* refresh_keys_from_provider: _init_rotation_strategy(self.rotation_strategy)
\* is handed the live strategy instance and keeps it as it is
RefreshedStrategy(strategy, new_keys) == strategy

\* refresh_keys_from_provider
RefreshKeys ==
    /\ refreshes < MaxRefresh
    /\ refreshes' = refreshes + 1
    /\ \E new_keys \in secret_provider :
         IF new_keys # <<>>
         THEN /\ keys' = new_keys
              /\ key_metrics' = [k \in Range(new_keys) |-> KeyMetrics(k)]
              /\ rotation_strategy' = RefreshedStrategy(rotation_strategy, new_keys)
              /\ hist' = [hist EXCEPT !.evicted = {},
                                      !.installed = new_keys,
                                      !.stale = TRUE]
         ELSE UNCHANGED <<keys, key_metrics, rotation_strategy, hist>>
    /\ UNCHANGED <<config, th, cl, middleware_vars>>

Next ==
    \/ \E c \in DOMAIN th : Request(c)
    \/ \E c \in DOMAIN th : NextAttempt(c)
    \/ \E c \in DOMAIN th : Send(c)
    \/ \E c \in DOMAIN th : Respond(c)
    \/ \E c \in DOMAIN th : RemoveKeySafely(c)
    \/ \E c \in DOMAIN th : AfterEviction(c)
    \/ \E c \in DOMAIN th : HandleException(c)
    \/ RefreshKeys

\* a single caller
Spec == Init /\ [][Next]_vars

\* concurrent callers
SpecConcurrent == InitConcurrent /\ [][Next]_vars

\* One caller on a rotator without an error-handling middleware and without
\* key refresh.  The calling thread keeps running: a step that is possible is
\* eventually taken.
InitSingleCaller == Init /\ middlewares = "none"

NextRequests ==
    \/ \E c \in DOMAIN th : Request(c)
    \/ \E c \in DOMAIN th : NextAttempt(c)
    \/ \E c \in DOMAIN th : Send(c)
    \/ \E c \in DOMAIN th : Respond(c)
    \/ \E c \in DOMAIN th : RemoveKeySafely(c)
    \/ \E c \in DOMAIN th : AfterEviction(c)
    \/ \E c \in DOMAIN th : HandleException(c)

SpecSingleCaller ==
    InitSingleCaller /\ [][NextRequests]_vars /\ WF_vars(NextRequests)

\* Two callers whose requests have room for a second attempt
InitRotation ==
    /\ Construct(SubSeq(KeyNames, 1, ConcurrentKeys), FALSE, TRUE)
    /\ max_retries = RotationRetries
    /\ should_retry_callback = "none"
    /\ middlewares = "none"
    /\ secret_provider = {}
    /\ upstream = ConcurrentUpstream
    /\ caller_headers = {FALSE}
    /\ cl = ClIdle
    /\ MiddlewaresIdle
    /\ th = [c \in Callers |-> IdleCaller]

SpecRotation == InitRotation /\ [][NextRequests]_vars


\* ------------------------------------------- classify_error on its own
StatusRange == 100..599
ClassifierExceptions == Exceptions \cup {"none", "ValueError"}

InitClassifier ==
    /\ Construct(AllKeys, FALSE, FALSE)
    /\ max_retries = MaxRetriesCfg
    /\ should_retry_callback = "none"
    /\ middlewares = "none"
    /\ secret_provider = {}
    /\ upstream = [statuses |-> {}, exceptions |-> {}]
    /\ caller_headers = {}
    /\ th = [c \in {"c1"} |-> IdleCaller]
    /\ cl \in [response : {{}} \cup {{s} : s \in StatusRange},
               exception : ClassifierExceptions,
               result : {"unset"}]
    /\ MiddlewaresIdle

\* a call classify_error(response=..., exception=...)
Classify ==
    /\ cl.result = "unset"
    /\ cl' = [cl EXCEPT !.result = classify_error(cl.response, cl.exception)]
    /\ UNCHANGED <<keys, key_metrics, rotation_strategy, config, th, refreshes, hist>>
    /\ UNCHANGED middleware_vars

NextClassifier == Classify

SpecClassifier == InitClassifier /\ [][NextClassifier]_vars

\* the rotator at rest, while one of its parts is exercised on its own
RotatorAtRest ==
    /\ Construct(AllKeys, FALSE, FALSE)
    /\ max_retries = MaxRetriesCfg
    /\ should_retry_callback = "none"
    /\ middlewares = "none"
    /\ secret_provider = {}
    /\ upstream = [statuses |-> {}, exceptions |-> {}]
    /\ caller_headers = {}
    /\ th = [c \in {"c1"} |-> IdleCaller]
    /\ cl = ClIdle

\* the rotator at rest, while a middleware is exercised on its own
RotatorIdle == RotatorAtRest /\ ComponentsIdle

\* ------------------------------------------------------ CachingMiddleware
\* str.lower() on the header names, header values and URLs of the model
Lower(text) ==
    CASE text \in {"Set-Cookie", "SET-COOKIE"} -> "set-cookie"
      [] text = "Content-Type" -> "content-type"
      [] text = "Cache-Control" -> "cache-control"
      [] text = "Retry-After" -> "retry-after"
      [] text = "Text/Event-Stream" -> "text/event-stream"
      [] text = "No-Store" -> "no-store"
      [] text = "/Login" -> "/login"
      [] text = "Authorization" -> "authorization"
      [] text = "X-API-Key" -> "x-api-key"
      [] text = "Accept" -> "accept"
      [] text = "AUTHORIZATION" -> "authorization"
      [] text = "User-Agent" -> "user-agent"
      [] text = "COOKIE" -> "cookie"
      [] OTHER -> text

\* str.upper() on the request methods of the model
Upper(method) == IF method = "get" THEN "GET" ELSE method

\* "name in headers": a headers dict is a set of <<name, value>> pairs and
\* is looked up by the exact spelling of the name
HasHeader(headers, name) == \E h \in headers : h[1] = name

\* headers.get(name, '')
GetHeader(headers, name) ==
    IF HasHeader(headers, name)
    THEN (CHOOSE h \in headers : h[1] = name)[2]
    ELSE ""

\* requests carry no body and no header besides the credential
RequestInfos ==
    {[method |-> m[1], url |-> m[2], key |-> "sk-1"] :
        m \in {<<"GET", "/a">>, <<"get", "/a">>, <<"GET", "/b">>, <<"POST", "/a">>,
               <<"POST", "/Login">>}}

\* response sizes and byte budgets, in bytes
ResponseSizes == {1, 2, 3}
ByteBudgets == {2, 4}
PerResponseCaps == {2, 3}
AmpleBytes == 100

\* cache lifetimes, in seconds, and the instants the clock passes through
Ttls == {1, 2}
Clock == 0..2

ResponseHeaders ==
    {{<<"Set-Cookie", "sid=1">>}, {<<"SET-COOKIE", "sid=1">>},
     {<<"Content-Type", "Text/Event-Stream">>}, {<<"Cache-Control", "No-Store">>},
     {<<"cache-control", "private">>}}

\* a ResponseInfo; size is len(content) + len(str(headers)) (_get_response_size)
ResponseInfos(request_info) ==
    [status_code : {200}, size : ResponseSizes, headers : {{}},
     request_info : {request_info}]
    \cup [status_code : {200}, size : {1}, headers : ResponseHeaders,
          request_info : {request_info}]
    \cup [status_code : {404}, size : {1}, headers : {{}}, request_info : {request_info}]

\* the responses a whole attempt is run with: bare bodies of one byte
AttemptResponses(request_info) ==
    {response_info \in ResponseInfos(request_info) :
        response_info.headers = {} /\ response_info.size = 1}

\* _get_cache_key: a hash of the upper-cased method, the URL and the headers
\* other than authorization / x-api-key / user-agent / cookie.
\* A text is a sequence of tokens; "|" is the separator of the join.
RECURSIVE Join(_)
\* '|'.join(key_parts)
Join(parts) ==
    IF Len(parts) = 0 THEN <<>>
    ELSE IF Len(parts) = 1 THEN parts[1]
    ELSE parts[1] \o <<"|">> \o Join(Tail(parts))

\* the header names of the requests in the order sort_keys puts them
SortedNames == <<"AUTHORIZATION", "Accept", "Authorization", "COOKIE", "User-Agent", "accept", "x-api-key">>

RECURSIVE JsonItems(_, _)
JsonItems(headers, names) ==
    IF names = <<>> THEN <<>>
    ELSE IF HasHeader(headers, Head(names))
    THEN <<Head(names), ":", GetHeader(headers, Head(names))>> \o JsonItems(headers, Tail(names))
    ELSE JsonItems(headers, Tail(names))

\* json.dumps(relevant_headers, sort_keys=True)
JsonDumps(headers) == <<"{">> \o JsonItems(headers, SortedNames) \o <<"}">>

\* _get_cache_key: the headers that enter the key
relevant_headers(headers) ==
    {h \in headers : Lower(h[1]) \notin {"authorization", "x-api-key", "user-agent", "cookie"}}

\* _get_cache_key: key_parts of a request with the upper-cased method, the
\* url, the headers and the body (kwargs 'data', a string) given as texts
key_parts(method, url, headers, body) ==
    <<<<method>>, url>>
    \o (IF relevant_headers(headers) # {}
        THEN <<JsonDumps(relevant_headers(headers))>> ELSE <<>>)
    \o (IF method \in {"POST", "PUT", "PATCH"} /\ body # <<>> THEN <<body>> ELSE <<>>)

\* _get_cache_key of a request that has headers and a body.  The key is the
\* SHA-256 digest of the joined text; distinct texts have distinct digests,
\* so the text stands for the digest.
cache_key_of(request_info) ==
    Join(key_parts(Upper(request_info.method), request_info.url,
                   request_info.headers, request_info.body))

\* _get_cache_key of a request of RequestInfos (no headers, no body, the url
\* a single token)
get_cache_key(request_info) ==
    Join(key_parts(Upper(request_info.method), <<request_info.url>>, {}, <<>>))

CacheKeys(cache) == {cache[i].key : i \in 1..Len(cache)}

CachedEntry(cache, cache_key) ==
    cache[CHOOSE i \in 1..Len(cache) : cache[i].key = cache_key]

RECURSIVE get_total_cache_size(_)
\* _get_total_cache_size
get_total_cache_size(cache) ==
    IF cache = <<>> THEN 0 ELSE Head(cache).size + get_total_cache_size(Tail(cache))

\* the TTL test of _evict_expired and before_request
IsFreshInclusive(cached, t, ttl) == t - cached.timestamp <= ttl

IsFresh(cached, t, ttl) == t - cached.timestamp < ttl

\* _evict_expired
evict_expired(cache, t, ttl) ==
    LET Keep(cached) == ~(t - cached.timestamp >= ttl) IN SelectSeq(cache, Keep)

evict_mru(cache) == IF Len(cache) > 0 THEN SubSeq(cache, 1, Len(cache) - 1) ELSE cache

\* _evict_lru: popitem(last=False)
evict_lru(cache) == IF Len(cache) > 0 THEN Tail(cache) ELSE cache

\* del self.cache[cache_key]
CacheDelete(cache, cache_key) ==
    LET Keep(cached) == cached.key # cache_key IN SelectSeq(cache, Keep)

\* self.cache.move_to_end(cache_key)
move_to_end(cache, cache_key) ==
    Append(CacheDelete(cache, cache_key), CachedEntry(cache, cache_key))

\* every periodic cleanup happens when hits + misses is a multiple of this
CleanupEvery == 100

\* _is_safe_to_cache
is_safe_to_cache(c, response_info) ==
    LET headers == response_info.headers IN
    IF HasHeader(headers, "Set-Cookie") \/ HasHeader(headers, "set-cookie") THEN FALSE
    ELSE IF Lower(GetHeader(headers, "Content-Type"))
              \in {"text/event-stream", "multipart/x-mixed-replace"} THEN FALSE
    ELSE IF Lower(GetHeader(headers, "Cache-Control")) \in {"no-store", "private"} THEN FALSE
    ELSE IF response_info.size > c.max_cacheable_size THEN FALSE
    ELSE IF Lower(response_info.request_info.url) \in {"/login"} THEN FALSE
    ELSE TRUE

\* the conditions under which a response may be stored, header names being
\* case-insensitive
Eligible(c, response_info) ==
    LET headers == response_info.headers
        Named(name) == {h \in headers : Lower(h[1]) = name}
    IN  /\ response_info.status_code >= 200 /\ response_info.status_code < 300
        /\ c.cache_only_get => Upper(response_info.request_info.method) = "GET"
        /\ Named("set-cookie") = {}
        /\ \A h \in Named("content-type") :
              Lower(h[2]) \notin {"text/event-stream", "multipart/x-mixed-replace"}
        /\ \A h \in Named("cache-control") : Lower(h[2]) \notin {"no-store", "private"}
        /\ response_info.size <= c.max_cacheable_size
        /\ Lower(response_info.request_info.url) # "/login"

before_request_counting_all(c, request_info, t) == [c EXCEPT !.misses = @ + 1]

\* before_request
before_request(c, request_info, t) ==
    IF c.cache_only_get /\ Upper(request_info.method) # "GET" THEN c
    ELSE LET cache_key == get_cache_key(request_info)
             swept == IF (c.hits + c.misses) % CleanupEvery = 0
                      THEN evict_expired(c.cache, t, c.ttl)
                      ELSE c.cache
         IN  IF cache_key \in CacheKeys(swept)
             THEN IF IsFresh(CachedEntry(swept, cache_key), t, c.ttl)
                  THEN [c EXCEPT !.hits = @ + 1,
                                 !.cache = move_to_end(swept, cache_key)]
                  ELSE [c EXCEPT !.cache = CacheDelete(swept, cache_key),
                                 !.misses = @ + 1]
             ELSE [c EXCEPT !.cache = swept, !.misses = @ + 1]

RECURSIVE EvictByCount(_, _)
\* after_request: while len(self.cache) >= self.max_cache_size: self._evict_lru()
EvictByCountNever(cache, max_cache_size) == cache

EvictByCount(cache, max_cache_size) ==
    IF Len(cache) >= max_cache_size
    THEN EvictByCount(evict_lru(cache), max_cache_size)
    ELSE cache

RECURSIVE EvictByBytes(_, _, _)
\* after_request: while total + response_size > max_cache_size_bytes, evict
\* until the cache is empty
EvictByBytes(cache, response_size, max_cache_size_bytes) ==
    IF get_total_cache_size(cache) + response_size > max_cache_size_bytes /\ Len(cache) # 0
    THEN EvictByBytes(evict_lru(cache), response_size, max_cache_size_bytes)
    ELSE cache

\* the stored entry: the response (its size) and the timestamp
CacheEntry(c, cache_key, response_info, t) ==
    [key |-> cache_key, size |-> response_info.size, timestamp |-> t]

\* after_request
after_request(c, response_info, t) ==
    IF c.cache_only_get /\ Upper(response_info.request_info.method) # "GET" THEN c
    ELSE IF ~(200 <= response_info.status_code /\ response_info.status_code < 300) THEN c
    ELSE IF ~is_safe_to_cache(c, response_info) THEN c
    ELSE LET cache_key == get_cache_key(response_info.request_info)
             response_size == response_info.size
             entry == CacheEntry(c, cache_key, response_info, t)
         IN  IF cache_key \notin CacheKeys(c.cache)
             THEN LET counted == EvictByCount(c.cache, c.max_cache_size)
                      fitted == EvictByBytes(counted, response_size, c.max_cache_size_bytes)
                  IN  IF get_total_cache_size(fitted) + response_size > c.max_cache_size_bytes
                      THEN [c EXCEPT !.cache = fitted]
                      ELSE [c EXCEPT !.cache = Append(fitted, entry)]
             ELSE [c EXCEPT !.cache =
                      [i \in 1..Len(c.cache) |->
                          IF c.cache[i].key = cache_key THEN entry ELSE c.cache[i]]]

\* history: the cached keys from least to most recently used, a use being
\* the insertion of a new entry or a lookup that hits
Recency(recency, cache_after, used) ==
    LET Keep(cache_key) == cache_key \in CacheKeys(cache_after) /\ cache_key # used
        kept == SelectSeq(recency, Keep)
    IN  IF used \in CacheKeys(cache_after) THEN Append(kept, used) ELSE kept

\* get_stats: the counters and the hit rate; the rate, a float in the code,
\* is the fraction <<numerator, denominator>>, 0.0 is <<0, 1>>
get_stats(c) ==
    LET total == c.hits + c.misses IN
    [cache_size |-> Len(c.cache), hits |-> c.hits, misses |-> c.misses,
     hit_rate |-> IF total > 0 THEN <<c.hits, total>> ELSE <<0, 1>>,
     total_requests |-> total]

\* CachingMiddleware(ttl, cache_only_get, max_cache_size, max_cache_size_bytes,
\* max_cacheable_size)
CachingMiddleware(ttl, cache_only_get, max_cache_size, max_cache_size_bytes, max_cacheable_size) ==
    [ttl |-> ttl, cache_only_get |-> cache_only_get,
     max_cache_size |-> IF max_cache_size > 1 THEN max_cache_size ELSE 1,
     max_cache_size_bytes |-> max_cache_size_bytes,
     max_cacheable_size |-> max_cacheable_size,
     cache |-> <<>>, hits |-> 0, misses |-> 0]

CacheStart ==
    /\ RotatorIdle
    /\ now = 0
    /\ cache_hist = CacheHistIdle
    /\ retry = RetryIdle
    /\ rate_limit = RateLimitIdle
    /\ pipeline = PipelineIdle

\* caches for every method whose byte budget is ample and which take
\* responses of one byte, under a running clock
InitCache ==
    /\ CacheStart
    /\ \E ttl \in Ttls, max_cache_size \in 0..MaxCacheEntries :
         caching = CachingMiddleware(ttl, FALSE, max_cache_size, AmpleBytes, 1)

\* caches with a tight byte budget, within the lifetime of their entries
InitCacheBytes ==
    /\ CacheStart
    /\ \E cache_only_get \in BOOLEAN, max_cache_size_bytes \in ByteBudgets,
          max_cacheable_size \in PerResponseCaps :
         caching = CachingMiddleware(Cardinality(Clock), cache_only_get, MaxCacheEntries,
                                     max_cache_size_bytes, max_cacheable_size)

CacheFrame == UNCHANGED <<rotator_vars, retry, rate_limit, pipeline>>

\* a call of before_request
BeforeRequest ==
    /\ cache_hist.calls < MaxCacheCalls
    /\ \E request_info \in RequestInfos :
         LET cache_key == get_cache_key(request_info)
             after == before_request(caching, request_info, now)
         IN  /\ caching' = after
             /\ cache_hist' =
                  [cache_hist EXCEPT
                     !.last = [op |-> "before_request", key |-> cache_key,
                               oversize |-> FALSE, eligible |-> TRUE, sent |-> FALSE,
                               evicted |-> CacheKeys(caching.cache) \ CacheKeys(after.cache)],
                     !.calls = @ + 1,
                     !.recency = Recency(@, after.cache,
                                         IF after.hits = caching.hits + 1
                                         THEN cache_key ELSE <<>>)]
    /\ UNCHANGED now
    /\ CacheFrame

\* a call of after_request
AfterRequest ==
    /\ cache_hist.calls < MaxCacheCalls
    /\ \E request_info \in RequestInfos :
         \E response_info \in ResponseInfos(request_info) :
           LET cache_key == get_cache_key(request_info)
               after == after_request(caching, response_info, now)
           IN  /\ caching' = after
               /\ cache_hist' =
                    [cache_hist EXCEPT
                       !.last = [op |-> "after_request", key |-> cache_key,
                                 oversize |-> response_info.size > caching.max_cache_size_bytes,
                                 eligible |-> Eligible(caching, response_info),
                                 sent |-> FALSE,
                                 evicted |-> CacheKeys(caching.cache) \ CacheKeys(after.cache)],
                       !.calls = @ + 1,
                       !.recency = Recency(@, after.cache,
                                           IF cache_key \notin CacheKeys(caching.cache)
                                           THEN cache_key ELSE <<>>)]
    /\ UNCHANGED now
    /\ CacheFrame

\* one attempt of AsyncAPIKeyRotator.request with the cache as its middleware:
\* before_request, then session.request, then after_request
AsyncAttempt ==
    /\ cache_hist.calls + 1 < MaxCacheCalls
    /\ \E request_info \in RequestInfos :
         \E response_info \in AttemptResponses(request_info) :
           LET cache_key == get_cache_key(request_info)
               looked == before_request(caching, request_info, now)
               after == after_request(looked, response_info, now)
               looked_recency == Recency(cache_hist.recency, looked.cache,
                                         IF looked.hits = caching.hits + 1
                                         THEN cache_key ELSE <<>>)
           IN  /\ caching' = after
               /\ cache_hist' =
                    [last |-> [op |-> "request", key |-> cache_key,
                               oversize |-> response_info.size > caching.max_cache_size_bytes,
                               eligible |-> Eligible(caching, response_info),
                               sent |-> TRUE,
                               evicted |-> CacheKeys(caching.cache) \ CacheKeys(after.cache)],
                     calls |-> cache_hist.calls + 2,
                     recency |-> Recency(looked_recency, after.cache,
                                         IF cache_key \notin CacheKeys(looked.cache)
                                         THEN cache_key ELSE <<>>)]
    /\ UNCHANGED now
    /\ CacheFrame

\* clear_cache
ClearCache ==
    /\ caching' = [caching EXCEPT !.cache = <<>>, !.hits = 0, !.misses = 0]
    /\ cache_hist' = [cache_hist EXCEPT !.last = [NoCall EXCEPT !.op = "clear_cache"],
                                        !.recency = <<>>]
    /\ UNCHANGED now
    /\ CacheFrame

\* a second passes
Tick ==
    /\ now + 1 \in Clock
    /\ now' = now + 1
    /\ UNCHANGED <<caching, cache_hist>>
    /\ CacheFrame

NextCache == BeforeRequest \/ AfterRequest \/ AsyncAttempt \/ ClearCache \/ Tick

SpecCache == InitCache /\ [][NextCache]_vars

NextCacheBytes == BeforeRequest \/ AfterRequest \/ AsyncAttempt \/ ClearCache

SpecCacheBytes == InitCacheBytes /\ [][NextCacheBytes]_vars

\* --------------------------------------------------------- RetryMiddleware
\* retry.retry_counts is the dict in insertion order: a sequence of
\* [url, count].  retry.backoff_factor is the float counted in halves
\* (3 is 1.5), a delay is the fraction [num, den] of seconds.
\* retry.last and retry.delays are history: the last call made, and per
\* tracked URL the delays slept since its counter was last started.
Urls == {"/a", "/b", "/c"}
RetryCaps == 0..3            \* max_retries arguments
BackoffHalves == 1..4        \* backoff_factor arguments 0.5, 1.0, 1.5, 2.0
TrackedCaps == 0..2          \* max_tracked_urls arguments
RetryStatuses == {200, 204, 404, 500}

Max(a, b) == IF a >= b THEN a ELSE b

RECURSIVE Pow(_, _)
Pow(base, exponent) == IF exponent = 0 THEN 1 ELSE base * Pow(base, exponent - 1)

TrackedUrls(retry_counts) == {retry_counts[i].url : i \in 1..Len(retry_counts)}

\* self.retry_counts.get(url, 0)
RetryCount(retry_counts, url) ==
    IF url \in TrackedUrls(retry_counts)
    THEN retry_counts[CHOOSE i \in 1..Len(retry_counts) : retry_counts[i].url = url].count
    ELSE 0

\* del self.retry_counts[url]
Untrack(retry_counts, url) ==
    LET Other(entry) == entry.url # url IN SelectSeq(retry_counts, Other)

\* _cleanup_successful
cleanup_successful(retry_counts, url) == Untrack(retry_counts, url)

\* sorted(items, key=count)[0]: the first entry with the lowest counter
Lowest(retry_counts) ==
    retry_counts[CHOOSE i \in 1..Len(retry_counts) :
                   /\ \A j \in 1..Len(retry_counts) : retry_counts[i].count <= retry_counts[j].count
                   /\ \A j \in 1..(i - 1) : retry_counts[j].count > retry_counts[i].count]

RECURSIVE RemoveLowest(_, _)
RemoveLowest(retry_counts, to_remove) ==
    IF to_remove = 0 \/ retry_counts = <<>> THEN retry_counts
    ELSE RemoveLowest(Untrack(retry_counts, Lowest(retry_counts).url), to_remove - 1)

\* _evict_oldest
evict_oldest(retry_counts, max_tracked_urls) ==
    IF Len(retry_counts) >= max_tracked_urls
    THEN RemoveLowest(retry_counts, Max(1, Len(retry_counts) \div 10))
    ELSE retry_counts

\* while len(self.retry_counts) >= self.max_tracked_urls: self._evict_oldest()
MakeRoomNever(retry_counts, max_tracked_urls) == retry_counts

RECURSIVE MakeRoom(_, _)
MakeRoom(retry_counts, max_tracked_urls) ==
    IF Len(retry_counts) >= max_tracked_urls
    THEN MakeRoom(evict_oldest(retry_counts, max_tracked_urls), max_tracked_urls)
    ELSE retry_counts

\* self.retry_counts[url] = count: in place for a tracked URL, else appended
SetCount(retry_counts, url, count) ==
    IF url \in TrackedUrls(retry_counts)
    THEN [i \in 1..Len(retry_counts) |->
            IF retry_counts[i].url = url THEN [url |-> url, count |-> count]
            ELSE retry_counts[i]]
    ELSE Append(retry_counts, [url |-> url, count |-> count])

wait_time_flat(backoff_factor, retry_count) == [num |-> 1, den |-> 1]

\* wait_time = self.backoff_factor ** retry_count
wait_time(backoff_factor, retry_count) ==
    [num |-> Pow(backoff_factor, retry_count), den |-> Pow(2, retry_count)]

NoWait == [num |-> 0, den |-> 1]

on_error_forgets(r, url) ==
    LET retry_count == RetryCount(r.retry_counts, url) IN
    IF retry_count < r.max_retries
    THEN [counts |-> r.retry_counts,
          wait |-> wait_time(r.backoff_factor, retry_count), handled |-> TRUE]
    ELSE [counts |-> Untrack(r.retry_counts, url), wait |-> NoWait, handled |-> FALSE]

\* RetryMiddleware.on_error: the table after the call, the delay slept and
\* the value returned
on_error(r, url) ==
    LET retry_count == RetryCount(r.retry_counts, url) IN
    IF retry_count < r.max_retries
    THEN LET room == IF url \notin TrackedUrls(r.retry_counts)
                     THEN MakeRoom(r.retry_counts, r.max_tracked_urls)
                     ELSE r.retry_counts
             wait == wait_time(r.backoff_factor, retry_count)
         IN  [counts |-> SetCount(room, url, retry_count + 1),
              wait |-> wait,
              handled |-> wait.num > 0]
    ELSE [counts |-> Untrack(r.retry_counts, url), wait |-> NoWait, handled |-> FALSE]

\* RetryMiddleware.after_request: the table after the call
retry_after_request(r, url, status_code) ==
    IF 200 <= status_code /\ status_code < 300
    THEN cleanup_successful(r.retry_counts, url)
    ELSE r.retry_counts

NoDelays == [url \in {} |-> <<>>]

\* history: the delays of the URLs still tracked, the new delay appended
Delays(delays, counts_after, url, wait) ==
    [u \in TrackedUrls(counts_after) |->
        LET before == IF u \in DOMAIN delays THEN delays[u] ELSE <<>>
        IN  IF u = url /\ wait # NoWait THEN Append(before, wait) ELSE before]

\* RetryMiddleware.__init__
RetryMiddleware(max_retries_arg, backoff_factor, max_tracked_urls) ==
    [max_retries |-> Max(1, max_retries_arg),
     backoff_factor |-> Max(2, backoff_factor),
     max_tracked_urls |-> Max(1, max_tracked_urls),
     retry_counts |-> <<>>,
     last |-> [op |-> "none", url |-> "", status_code |-> 0, handled |-> FALSE,
               wait |-> NoWait, evicted |-> {}],
     calls |-> 0,
     delays |-> NoDelays]

InitRetry ==
    /\ RotatorIdle
    /\ now = 0 /\ caching = CachingIdle /\ cache_hist = CacheHistIdle
    /\ rate_limit = RateLimitIdle /\ pipeline = PipelineIdle
    /\ \E max_retries_arg \in RetryCaps, backoff_factor \in BackoffHalves,
          max_tracked_urls \in TrackedCaps :
         retry = RetryMiddleware(max_retries_arg, backoff_factor, max_tracked_urls)

RetryFrame == UNCHANGED <<rotator_vars, now, caching, cache_hist, rate_limit, pipeline>>

\* a call of on_error for a failed request to url
RetryOnError ==
    /\ retry.calls < MaxRetryCalls
    /\ \E url \in Urls :
         LET result == on_error(retry, url) IN
         retry' = [retry EXCEPT
                     !.retry_counts = result.counts,
                     !.last = [op |-> "on_error", url |-> url, status_code |-> 0,
                               handled |-> result.handled, wait |-> result.wait,
                               evicted |-> (TrackedUrls(retry.retry_counts)
                                              \ TrackedUrls(result.counts)) \ {url}],
                     !.calls = @ + 1,
                     !.delays = Delays(@, result.counts, url, result.wait)]
    /\ RetryFrame

\* a call of after_request for a response to a request to url
RetryAfterRequest ==
    /\ retry.calls < MaxRetryCalls
    /\ \E url \in Urls, status_code \in RetryStatuses :
         LET counts == retry_after_request(retry, url, status_code) IN
         retry' = [retry EXCEPT
                     !.retry_counts = counts,
                     !.last = [op |-> "after_request", url |-> url,
                               status_code |-> status_code, handled |-> FALSE,
                               wait |-> NoWait, evicted |-> {}],
                     !.calls = @ + 1,
                     !.delays = Delays(@, counts, url, NoWait)]
    /\ RetryFrame

NextRetry == RetryOnError \/ RetryAfterRequest

SpecRetry == InitRetry /\ [][NextRetry]_vars

\* ----------------------------------------------------- RateLimitMiddleware
\* rate_limit.rate_limits maps a tracked key to its record; rate_limit.last
\* is history: the last on_error call and the value it returned.
\* An ErrorInfo is [key, response_info]; response_info is the set holding
\* the [status_code, headers] of the response, {} for None.
RetryAfterHeaders ==
    {{}, {<<"Retry-After", "30">>}, {<<"Retry-After", "5">>},
     {<<"Retry-After", "Wed, 21 Oct 2026 07:28:00 GMT">>},
     {<<"retry-after", "30">>}}

ErrorInfos ==
    {[key |-> key, response_info |-> response_info] :
        key \in {"sk-1", "x32-2"},
        response_info \in
            {{}} \cup {{[status_code |-> status_code, headers |-> headers]} :
                         status_code \in {429, 503}, headers \in RetryAfterHeaders}}

\* int(text): the set holding the integer, {} where int raises ValueError
ParseInt(text) ==
    CASE text = "30" -> {30}
      [] text = "5"  -> {5}
      [] OTHER       -> {}

\* the window recorded when the response gives none
DefaultRetryAfter == 60

SetResetTime(rate_limits, key, reset_time) ==
    [k \in (DOMAIN rate_limits) \cup {key} |->
        IF k = key THEN [reset_time |-> reset_time] ELSE rate_limits[k]]

\* RateLimitMiddleware.on_error: the table after the call and the value returned
rate_limit_on_error(rate_limits, error_info, t) ==
    IF /\ error_info.response_info # {}
       /\ \E response_info \in error_info.response_info : response_info.status_code = 429
    THEN LET response_info == CHOOSE x \in error_info.response_info : TRUE
             retry_after ==
                 IF HasHeader(response_info.headers, "Retry-After")
                 THEN LET parsed == ParseInt(GetHeader(response_info.headers, "Retry-After"))
                      IN  IF parsed # {} THEN CHOOSE n \in parsed : TRUE
                          ELSE DefaultRetryAfter
                 ELSE DefaultRetryAfter
         IN  [rate_limits |-> SetResetTime(rate_limits, error_info.key, t + retry_after),
              handled |-> TRUE]
    ELSE [rate_limits |-> rate_limits, handled |-> FALSE]

NoRateLimits == [key \in {} |-> [reset_time |-> 0]]

\* RateLimitMiddleware.__init__
RateLimitMiddleware ==
    [rate_limits |-> NoRateLimits,
     last |-> [error_info |-> [key |-> "", response_info |-> {}], handled |-> FALSE,
               at |-> 0],
     calls |-> 0]

InitRateLimit ==
    /\ RotatorIdle
    /\ now = 0 /\ caching = CachingIdle /\ cache_hist = CacheHistIdle
    /\ retry = RetryIdle /\ pipeline = PipelineIdle
    /\ rate_limit = RateLimitMiddleware

\* a call of on_error
RateLimitOnError ==
    /\ rate_limit.calls < MaxRateLimitCalls
    /\ \E error_info \in ErrorInfos :
         LET result == rate_limit_on_error(rate_limit.rate_limits, error_info, now) IN
         rate_limit' = [rate_limits |-> result.rate_limits,
                        last |-> [error_info |-> error_info, handled |-> result.handled,
                                  at |-> now],
                        calls |-> rate_limit.calls + 1]
    /\ UNCHANGED <<rotator_vars, now, caching, cache_hist, retry, pipeline>>

\* a second passes
RateLimitTick ==
    /\ now + 1 \in Clock
    /\ now' = now + 1
    /\ UNCHANGED <<rotator_vars, caching, cache_hist, retry, rate_limit, pipeline>>

NextRateLimit == RateLimitOnError \/ RateLimitTick

SpecRateLimit == InitRateLimit /\ [][NextRateLimit]_vars

\* ------------------------------------------------ the middleware pipeline
\* One attempt of request() with its middleware list.  A middleware is
\* [is_async, handles]: whether its hooks are coroutine functions (as the
\* RotatorMiddleware protocol declares them) and what its on_error returns.
\* The value a hook returns is its input with the middleware's index
\* appended, so a chain's output lists the middlewares it went through.
\* pipeline.invoked lists the middlewares whose hook the last runner called.
Middlewares == [is_async : BOOLEAN, handles : BOOLEAN]

MiddlewareLists == UNION {[1..n -> Middlewares] : n \in 0..MaxMiddlewares}

\* _run_sync_middleware_before_request / _run_sync_middleware_after_request
\* from middleware i on: coroutine hooks are skipped
RECURSIVE run_sync_middleware(_, _, _, _)
run_sync_middleware(mws, i, value, invoked) ==
    IF i > Len(mws) THEN [value |-> value, invoked |-> invoked, raised |-> FALSE]
    ELSE IF mws[i].is_async
         THEN run_sync_middleware(mws, i + 1, value, invoked)
         ELSE run_sync_middleware(mws, i + 1, Append(value, i), Append(invoked, i))

\* _run_sync_middleware_on_error from middleware i on
RECURSIVE run_sync_middleware_on_error(_, _, _)
run_sync_middleware_on_error(mws, i, invoked) ==
    IF i > Len(mws) THEN [handled |-> FALSE, invoked |-> invoked]
    ELSE IF mws[i].is_async
         THEN run_sync_middleware_on_error(mws, i + 1, invoked)
         ELSE IF mws[i].handles
              THEN [handled |-> TRUE, invoked |-> Append(invoked, i)]
              ELSE run_sync_middleware_on_error(mws, i + 1, Append(invoked, i))

\* "for middleware in self.middlewares: x = await middleware.hook(x)" from
\* middleware i on: awaiting what a plain function returned raises TypeError
RECURSIVE run_async_middleware(_, _, _, _)
run_async_middleware(mws, i, value, invoked) ==
    IF i > Len(mws) THEN [value |-> value, invoked |-> invoked, raised |-> FALSE]
    ELSE IF mws[i].is_async
         THEN run_async_middleware(mws, i + 1, Append(value, i), Append(invoked, i))
         ELSE [value |-> value, invoked |-> Append(invoked, i), raised |-> TRUE]

Pipeline(rotator, mws) ==
    [rotator |-> rotator, middlewares |-> mws, pc |-> "start", hook |-> "none",
     invoked |-> <<>>, value |-> <<>>, handled |-> FALSE, raised |-> FALSE]

InitPipeline ==
    /\ RotatorIdle
    /\ now = 0 /\ caching = CachingIdle /\ cache_hist = CacheHistIdle
    /\ retry = RetryIdle /\ rate_limit = RateLimitIdle
    /\ \E rotator \in {"sync", "async"}, mws \in MiddlewareLists :
         pipeline = Pipeline(rotator, mws)

PipelineFrame == UNCHANGED <<rotator_vars, now, caching, cache_hist, retry, rate_limit>>

\* the outcome of a before_request / after_request chain
Chained(hook, run, pc) ==
    pipeline' = [pipeline EXCEPT !.pc = IF run.raised THEN "done" ELSE pc,
                                 !.hook = hook,
                                 !.invoked = run.invoked,
                                 !.value = run.value,
                                 !.handled = FALSE,
                                 !.raised = run.raised]

\* APIKeyRotator.request: the before_request chain of an attempt
SyncBeforeRequest ==
    /\ pipeline.rotator = "sync" /\ pipeline.pc = "start"
    /\ Chained("before_request",
               run_sync_middleware(pipeline.middlewares, 1, <<>>, <<>>), "sent")
    /\ PipelineFrame

\* APIKeyRotator.request: a response arrived, the after_request chain
SyncAfterRequest ==
    /\ pipeline.rotator = "sync" /\ pipeline.pc = "sent"
    /\ Chained("after_request",
               run_sync_middleware(pipeline.middlewares, 1, <<>>, <<>>), "done")
    /\ PipelineFrame

\* APIKeyRotator.request: the transport raised, the on_error chain
SyncOnError ==
    /\ pipeline.rotator = "sync" /\ pipeline.pc = "sent"
    /\ LET run == run_sync_middleware_on_error(pipeline.middlewares, 1, <<>>) IN
       pipeline' = [pipeline EXCEPT !.pc = "done", !.hook = "on_error",
                                    !.invoked = run.invoked, !.value = <<>>,
                                    !.handled = run.handled]
    /\ PipelineFrame

\* AsyncAPIKeyRotator.request: the before_request loop of an attempt
AsyncBeforeRequest ==
    /\ pipeline.rotator = "async" /\ pipeline.pc = "start"
    /\ Chained("before_request",
               run_async_middleware(pipeline.middlewares, 1, <<>>, <<>>), "sent")
    /\ PipelineFrame

\* AsyncAPIKeyRotator.request: a response arrived, the after_request loop
AsyncAfterRequest ==
    /\ pipeline.rotator = "async" /\ pipeline.pc = "sent"
    /\ Chained("after_request",
               run_async_middleware(pipeline.middlewares, 1, <<>>, <<>>), "done")
    /\ PipelineFrame

\* AsyncAPIKeyRotator.request: the transport raised; no on_error is called
AsyncOnError ==
    /\ pipeline.rotator = "async" /\ pipeline.pc = "sent"
    /\ pipeline' = [pipeline EXCEPT !.pc = "done", !.hook = "on_error",
                                    !.invoked = <<>>, !.value = <<>>,
                                    !.handled = FALSE]
    /\ PipelineFrame

NextPipeline ==
    \/ SyncBeforeRequest \/ SyncAfterRequest \/ SyncOnError
    \/ AsyncBeforeRequest \/ AsyncAfterRequest \/ AsyncOnError

SpecPipeline == InitPipeline /\ [][NextPipeline]_vars

\* --------------------------------------------- headers saved per domain
\* A headers dict is the set of its header names, spelled as they are stored.
\* The headers= argument of a call
CustomHeaders ==
    {{}, {"Accept"}, {"authorization"}, {"Authorization", "Accept"}, {"x-api-key"}}

\* _get_domain_from_url(url) of the calls
Domains == {"a.example", "b.example"}

\* dict.pop("Authorization", None) and dict.pop("X-API-Key", None)
PopSensitive(headers) == headers \ {"Authorization", "X-API-Key"}

\* _prepare_headers_and_cookies without header_callback and user agents
prepare_headers_and_cookies(store, key, custom_headers, domain) ==
    LET saved_headers ==
            IF store.save_sensitive_headers /\ domain \in DOMAIN store.successful_headers
            THEN PopSensitive(store.successful_headers[domain])
            ELSE {}
        headers == custom_headers \cup saved_headers
    IN  IF "Authorization" \notin headers
           /\ ~\E h \in headers : Lower(h) = "authorization"
        THEN headers \cup {IF KeyShape(key) = "len32" THEN "X-API-Key" ELSE "Authorization"}
        ELSE headers

\* request(): "Save NON-sensitive headers if enabled", on the success branch
save_successful_headers(store, domain, headers) ==
    IF store.save_sensitive_headers /\ domain \notin DOMAIN store.successful_headers
    THEN [store EXCEPT !.successful_headers =
             [d \in DOMAIN store.successful_headers \cup {domain} |->
                  IF d = domain THEN PopSensitive(headers)
                  ELSE store.successful_headers[d]]]
    ELSE store

\* a rotator with a fresh config file
InitHeaders ==
    /\ RotatorAtRest
    /\ MiddlewaresAtRest
    /\ variants = VariantsIdle
    /\ limiter = LimiterIdle
    /\ health = HealthIdle
    /\ locking = LockingIdle
    /\ keyed = KeyedIdle
    /\ legacy = LegacyIdle
    /\ \E save \in BOOLEAN :
         header_store = [HeaderStoreIdle EXCEPT !.save_sensitive_headers = save]

\* one attempt of request(): the headers are prepared, the transport answers
\* with status, and a response that is returned to the caller has its headers
\* saved for the domain
HeaderRequest ==
    /\ header_store.calls < MaxHeaderRequests
    /\ \E domain \in Domains, custom_headers \in CustomHeaders,
          key \in Range(keys), status \in Statuses :
         LET headers == prepare_headers_and_cookies(header_store, key, custom_headers, domain)
             store == IF Decide(should_retry_callback, status) = "return"
                      THEN save_successful_headers(header_store, domain, headers)
                      ELSE header_store
         IN  header_store' =
                 [store EXCEPT !.last = [domain |-> domain, status |-> status,
                                         headers |-> headers],
                               !.calls = @ + 1]
    /\ UNCHANGED <<keys, key_metrics, rotation_strategy, th, refreshes, hist, cl>>
    /\ UNCHANGED <<max_retries, should_retry_callback, middlewares, secret_provider,
                   upstream, caller_headers, middleware_vars, variants, limiter, health, locking, keyed, legacy>>

NextHeaders == HeaderRequest

SpecHeaders == InitHeaders /\ [][NextHeaders]_vars

\* ------------------------------------ the sync and the async request
\* What the transport does on one send: a response or a connection error.
Outcomes ==
    {[response |-> {s}, exception |-> "none"] : s \in {200, 401, 429}}
        \cup {[response |-> {}, exception |-> "ConnectionError"]}

\* a request that has not sent yet, over its rotator's pool
StartRun(api_keys, retries) ==
    [keys |-> api_keys, strategy |-> create_rotation_strategy("round_robin", api_keys),
     attempt |-> 0, retries |-> retries, sends |-> 0, evicted |-> {}, result |-> "none"]

\* _remove_key_safely(key) on the rotator of a run
RunRemoveKey(run, key) ==
    LET ks == RemoveFromPool(run.keys, key) IN
    [run EXCEPT !.keys = ks,
                !.strategy = RebuildAfterRemoval(run.strategy, ks),
                !.evicted = @ \cup {key}]

\* get_next_key() on the rotator of a run
RunSelect(run) == [run EXCEPT !.strategy = RoundRobinAdvance(@)]

\* APIKeyRotator.request: one pass of the while loop, the transport
\* answering with outcome; requests.ConnectionError is a RequestException
sync_request_pass(run, outcome, cb) ==
    LET key == RoundRobinKey(run.strategy)
        sent == [RunSelect(run) EXCEPT !.sends = @ + 1]
    IN  IF outcome.exception # "none"
        THEN IF Caught(outcome.exception)
             THEN [sent EXCEPT !.attempt = ConsumeAttempt(@)]
             ELSE [sent EXCEPT !.result = outcome.exception]
        ELSE LET decision == Decide(cb, CHOOSE s \in outcome.response : TRUE) IN
             IF decision = "evict"
             THEN LET removed == RunRemoveKey(sent, key) IN
                  IF removed.keys = <<>>
                  THEN [removed EXCEPT !.result = "AllKeysExhaustedError"]
                  ELSE [removed EXCEPT !.attempt = AttemptAfterEviction(@)]
             ELSE IF decision = "return" THEN [sent EXCEPT !.result = "response"]
             ELSE [sent EXCEPT !.attempt = ConsumeAttempt(@)]

\* async_retry_with_backoff: a ClientError of the last try is raised to the
\* caller, an earlier one is followed by the next try
AsyncRetry(run) ==
    IF run.attempt = run.retries - 1
    THEN [run EXCEPT !.result = "ClientError"]
    ELSE [run EXCEPT !.attempt = @ + 1]

\* AsyncAPIKeyRotator.request: one try of the coroutine under
\* async_retry_with_backoff; aiohttp.ClientConnectionError is a ClientError
async_request_pass(run, outcome, cb) ==
    LET key == RoundRobinKey(run.strategy)
        sent == [RunSelect(run) EXCEPT !.sends = @ + 1]
    IN  IF outcome.exception # "none"
        THEN AsyncRetry(sent)
        ELSE LET decision == Decide(cb, CHOOSE s \in outcome.response : TRUE) IN
             IF decision = "evict"
             THEN LET removed == RunRemoveKey(sent, key) IN
                  IF removed.keys = <<>>
                  THEN [removed EXCEPT !.result = "AllKeysExhaustedError"]
                  ELSE AsyncRetry(removed)
             ELSE IF decision = "return" THEN [sent EXCEPT !.result = "response"]
             ELSE AsyncRetry(sent)

\* the outcome of the next send of a run: the script says it, and a run that
\* is ahead of the script finds out what the transport does
NextOutcomes(run) ==
    IF run.sends < Len(variants.script)
    THEN {variants.script[run.sends + 1]}
    ELSE Outcomes

Extended(script, run, outcome) ==
    IF run.sends < Len(script) THEN script ELSE Append(script, outcome)

\* two rotators built alike, one request on each
InitVariants ==
    /\ \E api_keys \in InitialPools : Construct(api_keys, FALSE, FALSE)
    /\ max_retries \in 1..MaxRetriesCfg
    /\ should_retry_callback = "none"
    /\ middlewares = "none"
    /\ secret_provider = {}
    /\ upstream = [statuses |-> {}, exceptions |-> {}]
    /\ caller_headers = {}
    /\ th = [c \in {"c1"} |-> IdleCaller]
    /\ cl = ClIdle
    /\ MiddlewaresAtRest
    /\ header_store = HeaderStoreIdle
    /\ limiter = LimiterIdle
    /\ health = HealthIdle
    /\ locking = LockingIdle
    /\ keyed = KeyedIdle
    /\ legacy = LegacyIdle
    /\ variants = [script |-> <<>>,
                   sync |-> StartRun(keys, max_retries),
                   async |-> StartRun(keys, Len(keys) * max_retries)]

VariantsFrame ==
    /\ UNCHANGED <<keys, key_metrics, rotation_strategy, th, refreshes, hist, cl>>
    /\ UNCHANGED <<max_retries, should_retry_callback, middlewares, secret_provider,
                   upstream, caller_headers, middleware_vars, header_store, limiter, health, locking, keyed, legacy>>

\* the sync request: the loop test, then one pass
SyncPass ==
    /\ variants.sync.result = "none"
    /\ IF variants.sync.attempt >= variants.sync.retries
       THEN variants' = [variants EXCEPT !.sync.result = "AllKeysExhaustedError"]
       ELSE \E outcome \in NextOutcomes(variants.sync) :
              variants' = [variants EXCEPT
                  !.script = Extended(@, variants.sync, outcome),
                  !.sync = sync_request_pass(@, outcome, should_retry_callback)]
    /\ VariantsFrame

\* the async request: one try
AsyncPass ==
    /\ variants.async.result = "none"
    /\ \E outcome \in NextOutcomes(variants.async) :
         variants' = [variants EXCEPT
             !.script = Extended(@, variants.async, outcome),
             !.async = async_request_pass(@, outcome, should_retry_callback)]
    /\ VariantsFrame

NextVariants == SyncPass \/ AsyncPass

SpecVariants == InitVariants /\ [][NextVariants]_vars

\* ------------------------- RateLimitMiddleware: the table and the pause
\* limiter.rate_limits is the dict in insertion order: a sequence of
\* [key, reset_time], reset_time being limit_info.get('reset_time', 0).
\* limiter.waiting[c] is the before_request call of caller c that sleeps:
\* its key, the reset time it read and the instant its sleep ends.
\* limiter.last and limiter.returns are history: the before_request call
\* that returned last (and whether it slept), and how many did.

\* max_tracked_keys = max(10, max_tracked_keys)
MinTrackedKeys == 10

\* "if self._request_count % 50 == 0"
CleanupPeriod == 50

\* "Remove if reset was more than 1 hour ago"
ExpiryAge == 3600

\* "Remove 10% oldest": len(sorted_keys) // 10
EvictedShare == 10

OldKeys == <<"k1", "k2", "k3", "k4", "k5", "k6", "k7", "k8", "k9", "k10", "k11">>
NewKeys == {"n1", "n2", "n3"}

\* response headers of after_request
LimitHeaders ==
    {{}, {<<"X-RateLimit-Remaining", "5">>}, {<<"X-RateLimit-Reset", "30">>},
     {<<"Retry-After", "5">>}, {<<"Retry-After", "soon">>}}

Tracked(table, key) == \E i \in 1..Len(table) : table[i].key = key

\* limit_info.get('reset_time', 0) of a key, 0 also for a key not tracked
ResetTimeOf(table, key) ==
    IF Tracked(table, key)
    THEN (CHOOSE e \in Range(table) : e.key = key).reset_time
    ELSE 0

\* self.rate_limits[key] = {...}: a tracked key keeps its place
DictSet(table, key, reset_time) ==
    IF Tracked(table, key)
    THEN [i \in 1..Len(table) |->
             IF table[i].key = key THEN [key |-> key, reset_time |-> reset_time]
             ELSE table[i]]
    ELSE Append(table, [key |-> key, reset_time |-> reset_time])

\* _cleanup_expired
cleanup_expired(table, t) ==
    SelectSeq(table, LAMBDA e : ~(e.reset_time > 0 /\ e.reset_time < t - ExpiryAge))

\* the first entry of sorted(items, key=reset_time): the sort is stable
Oldest(table) ==
    CHOOSE i \in 1..Len(table) :
        \A j \in 1..Len(table) :
            \/ table[i].reset_time < table[j].reset_time
            \/ table[i].reset_time = table[j].reset_time /\ i <= j

RECURSIVE RemoveOldest(_, _)
RemoveOldest(table, n) ==
    IF n = 0 \/ table = <<>> THEN table
    ELSE LET i == Oldest(table) IN
         RemoveOldest(SubSeq(table, 1, i - 1) \o SubSeq(table, i + 1, Len(table)), n - 1)

\* _evict_oldest
rate_limit_evict_oldest(table, max_tracked_keys) ==
    IF Len(table) >= max_tracked_keys
    THEN RemoveOldest(table, Max(1, Len(table) \div EvictedShare))
    ELSE table

pause_wait_time_none(pause_on_limit, reset_time, t) == 0

\* before_request: wait_time
pause_wait_time(pause_on_limit, reset_time, t) ==
    IF pause_on_limit /\ reset_time > t THEN reset_time - t ELSE 0

\* before_request, the part under the lock: the table after the periodic
\* cleanup, the reset time read and the time to wait
rate_limit_before_request(lim, key, t) ==
    LET count == lim.request_count + 1
        table == IF count % CleanupPeriod = 0
                 THEN rate_limit_evict_oldest(cleanup_expired(lim.rate_limits, t),
                                              lim.max_tracked_keys)
                 ELSE lim.rate_limits
        reset_time == ResetTimeOf(table, key)
    IN  [request_count |-> count, rate_limits |-> table, seen |-> reset_time,
         wait_time |-> IF Tracked(table, key)
                       THEN pause_wait_time(lim.pause_on_limit, reset_time, t)
                       ELSE 0]

\* after_request: rate_limit_info as far as the table reads it: {} when no
\* header gave a value, else the set holding its reset_time (0 when absent)
rate_limit_info(headers, t) ==
    IF HasHeader(headers, "Retry-After") /\ ParseInt(GetHeader(headers, "Retry-After")) # {}
    THEN {t + (CHOOSE n \in ParseInt(GetHeader(headers, "Retry-After")) : TRUE)}
    ELSE IF HasHeader(headers, "X-RateLimit-Reset")
            /\ ParseInt(GetHeader(headers, "X-RateLimit-Reset")) # {}
    THEN ParseInt(GetHeader(headers, "X-RateLimit-Reset"))
    ELSE IF \E n \in {"X-RateLimit-Limit", "X-RateLimit-Remaining"} :
              HasHeader(headers, n) /\ ParseInt(GetHeader(headers, n)) # {}
    THEN {0}
    ELSE {}

\* after_request: the table after the call
rate_limit_after_request(lim, key, headers, t) ==
    LET info == rate_limit_info(headers, t) IN
    IF info = {} THEN lim.rate_limits
    ELSE DictSet(rate_limit_evict_oldest(lim.rate_limits, lim.max_tracked_keys),
                 key, CHOOSE reset_time \in info : TRUE)

\* on_error: the table after the call
rate_limit_table_on_error(lim, error_info, t) ==
    LET result == rate_limit_on_error(NoRateLimits, error_info, t) IN
    IF result.handled
    THEN DictSet(lim.rate_limits, error_info.key,
                 result.rate_limits[error_info.key].reset_time)
    ELSE lim.rate_limits

\* RateLimitMiddleware(pause_on_limit, max_tracked_keys)
Limiter(pause_on_limit, max_tracked_keys) ==
    [LimiterIdle EXCEPT !.pause_on_limit = pause_on_limit,
                        !.max_tracked_keys = Max(MinTrackedKeys, max_tracked_keys)]

LimiterFrame ==
    /\ UNCHANGED <<keys, key_metrics, rotation_strategy, th, refreshes, hist, cl>>
    /\ UNCHANGED <<max_retries, should_retry_callback, middlewares, secret_provider,
                   upstream, caller_headers, header_store, variants, health, locking, keyed, legacy>>
    /\ UNCHANGED <<caching, cache_hist, retry, rate_limit, pipeline>>

\* caller c calls before_request for key: it returns at once or goes to sleep
LimiterBeforeRequest(c, key, max_calls) ==
    /\ limiter.calls < max_calls
    /\ limiter.waiting[c] = NotWaiting
    /\ LET r == rate_limit_before_request(limiter, key, now)
           call == [key |-> key, seen |-> r.seen, until |-> now + r.wait_time,
                    waited |-> FALSE]
       IN  limiter' = [limiter EXCEPT
               !.request_count = r.request_count,
               !.rate_limits = r.rate_limits,
               !.waiting[c] = IF r.wait_time > 0 THEN call ELSE NotWaiting,
               !.last = IF r.wait_time > 0 THEN @ ELSE call,
               !.returns = IF r.wait_time > 0 THEN @ ELSE @ + 1,
               !.calls = @ + 1]
    /\ UNCHANGED now
    /\ LimiterFrame

\* asyncio.sleep(wait_time) of caller c is over: before_request returns
LimiterWake(c) ==
    /\ limiter.waiting[c] # NotWaiting
    /\ now >= limiter.waiting[c].until
    /\ limiter' = [limiter EXCEPT !.waiting[c] = NotWaiting,
                                  !.last = [limiter.waiting[c] EXCEPT !.waited = TRUE],
                                  !.returns = @ + 1]
    /\ UNCHANGED now
    /\ LimiterFrame

\* a call of after_request for key
LimiterAfterRequest(key, max_calls) ==
    /\ limiter.calls < max_calls
    /\ \E headers \in LimitHeaders :
         limiter' = [limiter EXCEPT
             !.rate_limits = rate_limit_after_request(limiter, key, headers, now),
             !.calls = @ + 1]
    /\ UNCHANGED now
    /\ LimiterFrame

\* a call of on_error for key
LimiterOnError(key, max_calls) ==
    /\ limiter.calls < max_calls
    /\ \E error_info \in ErrorInfos :
         limiter' = [limiter EXCEPT
             !.rate_limits =
                 rate_limit_table_on_error(limiter, [error_info EXCEPT !.key = key], now),
             !.calls = @ + 1]
    /\ UNCHANGED now
    /\ LimiterFrame

\* time passes, up to the next instant at which something is due
LimiterTimePasses ==
    /\ \E t \in {limiter.rate_limits[i].reset_time : i \in 1..Len(limiter.rate_limits)}
                  \cup {limiter.waiting[c].until : c \in Callers} :
         /\ t > now
         /\ now' = t
    /\ UNCHANGED limiter
    /\ LimiterFrame

\* A middleware with the smallest table the constructor allows, one entry
\* short of full after MinTrackedKeys - 1 after_request calls, one call
\* before its periodic cleanup; the entries are recent or long expired.
InitLimiterTable ==
    /\ RotatorAtRest
    /\ caching = CachingIdle /\ cache_hist = CacheHistIdle
    /\ retry = RetryIdle /\ rate_limit = RateLimitIdle /\ pipeline = PipelineIdle
    /\ header_store = HeaderStoreIdle /\ variants = VariantsIdle
    /\ health = HealthIdle
    /\ locking = LockingIdle
    /\ keyed = KeyedIdle
    /\ legacy = LegacyIdle
    /\ now \in {MinTrackedKeys, ExpiryAge + 2 * MinTrackedKeys}
    /\ \E pause \in BOOLEAN, arg \in {1, MinTrackedKeys} :
         limiter = [Limiter(pause, arg) EXCEPT
             !.rate_limits = [i \in 1..(MinTrackedKeys - 1) |->
                                 [key |-> OldKeys[i], reset_time |-> i]],
             !.request_count = CleanupPeriod - 2]

NextLimiterTable ==
    \/ \E c \in Callers, key \in NewKeys \cup {OldKeys[1]} :
         LimiterBeforeRequest(c, key, MaxTableCalls)
    \/ \E c \in Callers : LimiterWake(c)
    \/ \E key \in NewKeys \cup {OldKeys[1]} : LimiterAfterRequest(key, MaxTableCalls)
    \/ \E key \in NewKeys \cup {OldKeys[1]} : LimiterOnError(key, MaxTableCalls)
    \/ LimiterTimePasses

SpecLimiterTable == InitLimiterTable /\ [][NextLimiterTable]_vars

\* A fresh middleware and two callers that use the same key
InitLimiterPause ==
    /\ RotatorAtRest
    /\ MiddlewaresAtRest
    /\ header_store = HeaderStoreIdle /\ variants = VariantsIdle
    /\ health = HealthIdle
    /\ locking = LockingIdle
    /\ keyed = KeyedIdle
    /\ legacy = LegacyIdle
    /\ \E pause \in BOOLEAN : limiter = Limiter(pause, MinTrackedKeys)

NextLimiterPause ==
    \/ \E c \in Callers : LimiterBeforeRequest(c, "n1", MaxPauseCalls)
    \/ \E c \in Callers : LimiterWake(c)
    \/ LimiterAfterRequest("n1", MaxPauseCalls)
    \/ LimiterOnError("n1", MaxPauseCalls)
    \/ LimiterTimePasses

SpecLimiterPause == InitLimiterPause /\ [][NextLimiterPause]_vars

\* ---------------------------------------------------- HealthBasedStrategy
\* health.metrics is the strategy's _key_metrics, health.rotator_metrics the
\* rotator's; get_next_key stores the KeyMetrics objects it is handed in
\* the strategy's map, and from then on (health.shared) the two maps hold
\* the same objects.  A KeyMetrics is [consecutive_failures, is_healthy,
\* last_used].  health.recovered is history: the keys get_next_key marked
\* healthy that have not been updated or reset since.

\* health_check_interval of HealthBasedStrategy.__init__
HealthCheckInterval == 300

FailureThresholds == {1, FailureThreshold}

\* time.time() of the calls: an instant, the next second, and one more than
\* health_check_interval later
HealthInstants(t0) == {t0, t0 + 1, t0 + HealthCheckInterval + 2}

HealthKeyMetrics == [consecutive_failures |-> 0, is_healthy |-> TRUE, last_used |-> 0]

health_update_key_metrics_lenient(m, success, failure_threshold, t) ==
    IF success
    THEN [m EXCEPT !.consecutive_failures = 0, !.is_healthy = TRUE, !.last_used = t]
    ELSE [m EXCEPT !.consecutive_failures = @ + 1,
                   !.is_healthy = IF m.consecutive_failures + 1 > failure_threshold
                                  THEN FALSE ELSE @,
                   !.last_used = t]

\* HealthBasedStrategy.update_key_metrics on the record of a key
health_update_key_metrics(m, success, failure_threshold, t) ==
    IF success
    THEN [m EXCEPT !.consecutive_failures = 0, !.is_healthy = TRUE, !.last_used = t]
    ELSE [m EXCEPT !.consecutive_failures = @ + 1,
                   !.is_healthy = IF m.consecutive_failures + 1 >= failure_threshold
                                  THEN FALSE ELSE @,
                   !.last_used = t]

\* HealthBasedStrategy.get_next_key: healthy_keys
healthy_keys(metrics, health_check_interval, t) ==
    {k \in DOMAIN metrics :
        metrics[k].is_healthy \/ t - metrics[k].last_used > health_check_interval}

\* HealthBasedStrategy.get_next_key: "mark all as healthy"
MarkAllHealthy(metrics) == [k \in DOMAIN metrics |-> [metrics[k] EXCEPT !.is_healthy = TRUE]]

\* HealthBasedStrategy.get_next_key over the metrics it holds after taking in
\* current_key_metrics: the metrics it leaves and what the call gives.  The
\* module never imports random, so "random.choice(healthy_keys)" raises
\* NameError; an empty pool raises Exception before that line.
health_get_next_key(metrics, health_check_interval, t) ==
    IF healthy_keys(metrics, health_check_interval, t) # {}
    THEN [metrics |-> metrics, result |-> "NameError", recovered |-> {}]
    ELSE IF DOMAIN metrics = {}
    THEN [metrics |-> metrics, result |-> "Exception", recovered |-> {}]
    ELSE [metrics |-> MarkAllHealthy(metrics), result |-> "NameError",
          recovered |-> DOMAIN metrics]

\* BaseKeyRotator.reset_key_health(key); "all" stands for key=None
reset_key_health(metrics, key) ==
    [k \in DOMAIN metrics |->
        IF key = "all" \/ k = key
        THEN [metrics[k] EXCEPT !.is_healthy = TRUE, !.consecutive_failures = 0]
        ELSE metrics[k]]

\* HealthBasedStrategy(keys, failure_threshold) in a rotator over keys
HealthBasedStrategy(api_keys, failure_threshold) ==
    [HealthIdle EXCEPT
        !.failure_threshold = failure_threshold,
        !.health_check_interval = HealthCheckInterval,
        !.metrics = [k \in Range(api_keys) |-> HealthKeyMetrics],
        !.rotator_metrics = [k \in Range(api_keys) |-> HealthKeyMetrics]]

InitHealth ==
    /\ RotatorAtRest
    /\ caching = CachingIdle /\ cache_hist = CacheHistIdle
    /\ retry = RetryIdle /\ rate_limit = RateLimitIdle /\ pipeline = PipelineIdle
    /\ header_store = HeaderStoreIdle /\ variants = VariantsIdle
    /\ limiter = LimiterIdle
    /\ locking = LockingIdle
    /\ keyed = KeyedIdle
    /\ legacy = LegacyIdle
    /\ now = HealthCheckInterval + 1
    /\ \E api_keys \in InitialPools \cup {<<>>}, failure_threshold \in FailureThresholds :
         health = HealthBasedStrategy(api_keys, failure_threshold)

HealthFrame ==
    /\ UNCHANGED <<keys, key_metrics, rotation_strategy, th, refreshes, hist, cl>>
    /\ UNCHANGED <<max_retries, should_retry_callback, middlewares, secret_provider,
                   upstream, caller_headers, header_store, variants, limiter, locking, keyed, legacy>>
    /\ UNCHANGED <<caching, cache_hist, retry, rate_limit, pipeline>>

\* the rotator's map after the strategy's objects changed
Mirror(h, metrics) == IF h.shared THEN metrics ELSE h.rotator_metrics

\* strategy.update_key_metrics(key, success)
HealthUpdate ==
    /\ health.calls < MaxHealthCalls
    /\ \E key \in Range(AllKeys), success \in BOOLEAN :
         LET metrics ==
                 IF key \in DOMAIN health.metrics
                 THEN [health.metrics EXCEPT
                          ![key] = health_update_key_metrics(@, success,
                                       health.failure_threshold, now)]
                 ELSE health.metrics
         IN  health' = [health EXCEPT
                 !.metrics = metrics,
                 !.rotator_metrics = Mirror(health, metrics),
                 !.recovered = @ \ {key},
                 !.last = [op |-> "update_key_metrics", key |-> key,
                           success |-> success, result |-> ""],
                 !.calls = @ + 1]
    /\ UNCHANGED now
    /\ HealthFrame

\* rotator.get_next_key(): strategy.get_next_key(metrics_copy)
HealthGetNextKey ==
    /\ health.calls < MaxHealthCalls
    /\ LET r == health_get_next_key(health.rotator_metrics,
                                    health.health_check_interval, now)
       IN  health' = [health EXCEPT
               !.metrics = r.metrics,
               !.rotator_metrics = r.metrics,
               !.shared = TRUE,
               !.recovered = @ \cup r.recovered,
               !.last = [op |-> "get_next_key", key |-> "", success |-> FALSE,
                         result |-> r.result],
               !.calls = @ + 1]
    /\ UNCHANGED now
    /\ HealthFrame

\* rotator.reset_key_health(key)
HealthReset ==
    /\ health.calls < MaxHealthCalls
    /\ \E key \in Range(AllKeys) \cup {"all"} :
         LET metrics == reset_key_health(health.rotator_metrics, key) IN
         health' = [health EXCEPT
             !.rotator_metrics = metrics,
             !.metrics = IF health.shared THEN metrics ELSE @,
             !.recovered = IF ~health.shared THEN @
                           ELSE IF key = "all" THEN {} ELSE @ \ {key},
             !.last = [op |-> "reset_key_health", key |-> key, success |-> FALSE,
                       result |-> ""],
             !.calls = @ + 1]
    /\ UNCHANGED now
    /\ HealthFrame

HealthTick ==
    /\ \E t \in HealthInstants(HealthCheckInterval + 1) :
         /\ t > now
         /\ now' = t
    /\ UNCHANGED health
    /\ HealthFrame

NextHealth == HealthUpdate \/ HealthGetNextKey \/ HealthReset \/ HealthTick

SpecHealth == InitHealth /\ [][NextHealth]_vars

\* ------------------------------------------- eviction under every strategy
\* A rotator built with each kind of strategy, its methods called directly:
\* _remove_key_safely(key) and _update_key_metrics(key, success, ...).

\* api_keys that name one key twice: parse_keys takes the list as it is
DuplicatePools == {<<AllKeys[1], AllKeys[1]>>}

InitEviction ==
    /\ \E api_keys \in InitialPools \cup DuplicatePools, kind \in StrategyKinds :
         /\ keys = api_keys
         /\ key_metrics = [k \in Range(api_keys) |-> KeyMetrics(k)]
         /\ rotation_strategy = create_rotation_strategy(kind, api_keys)
    /\ refreshes = 0
    /\ hist = [evicted |-> {}, evicted_ever |-> {}, installed |-> keys,
               returned |-> <<>>, stale |-> FALSE, sends |-> 0, ok |-> 0,
               retried |-> {}, last_selector |-> "none", trace |-> FALSE,
               follow |-> FALSE]
    /\ max_retries = MaxRetriesCfg
    /\ should_retry_callback = "none"
    /\ middlewares = "none"
    /\ secret_provider = {}
    /\ upstream = [statuses |-> {}, exceptions |-> {}]
    /\ caller_headers = {}
    /\ th = [c \in {"c1"} |-> IdleCaller]
    /\ cl = ClIdle
    /\ MiddlewaresIdle

\* _remove_key_safely(key)
EvictKey ==
    /\ \E key \in Range(AllKeys) :
         LET ks == RemoveFromPool(keys, key) IN
         /\ keys' = ks
         /\ key_metrics' = RemoveFromMetrics(key_metrics, key)
         /\ rotation_strategy' = RebuildAfterRemoval(rotation_strategy, ks)
         /\ hist' = [hist EXCEPT !.evicted = @ \cup {key},
                                 !.evicted_ever = @ \cup {key}]
    /\ UNCHANGED <<config, th, refreshes, cl, middleware_vars>>

\* _update_key_metrics(key, success, response_time)
RecordOutcome ==
    /\ \E key \in Range(AllKeys), success \in BOOLEAN :
         /\ key \in DOMAIN key_metrics =>
               key_metrics[key].consecutive_failures <= FailureThreshold
         /\ key_metrics' = UpdateKeyMetrics(key_metrics, key, success)
    /\ UNCHANGED <<keys, rotation_strategy, config, th, refreshes, hist, cl, middleware_vars>>

NextEviction == EvictKey \/ RecordOutcome

SpecEviction == InitEviction /\ [][NextEviction]_vars

\* ------------------------------------------------ concurrent metric updates
\* Two threads update the KeyMetrics objects that the rotator and its
\* HealthBasedStrategy share.  BaseKeyRotator._update_key_metrics runs under
\* _metrics_lock and is one action.  HealthBasedStrategy.update_key_metrics
\* takes no lock: "metrics.consecutive_failures += 1" is a load and a store
\* that another thread's update can come between, so it is two actions; the
\* threshold test that follows the store is folded into the store.
\* health.done counts, per key, the failure updates that have returned.

IdleUpdater == [pc |-> "idle", key |-> "", loaded |-> 0]

InitHealthRace ==
    /\ RotatorAtRest
    /\ caching = CachingIdle /\ cache_hist = CacheHistIdle
    /\ retry = RetryIdle /\ rate_limit = RateLimitIdle /\ pipeline = PipelineIdle
    /\ header_store = HeaderStoreIdle /\ variants = VariantsIdle
    /\ limiter = LimiterIdle
    /\ locking = LockingIdle
    /\ keyed = KeyedIdle
    /\ legacy = LegacyIdle
    /\ now = HealthCheckInterval + 1
    /\ \E api_keys \in InitialPools, failure_threshold \in FailureThresholds :
         health = [failure_threshold |-> failure_threshold,
                   metrics |-> [k \in Range(api_keys) |-> HealthKeyMetrics],
                   updaters |-> [t \in Callers |-> IdleUpdater],
                   done |-> [k \in Range(api_keys) |-> 0],
                   started |-> 0, unlocked |-> 0]

\* rotator._update_key_metrics(key, False, ...), under _metrics_lock
LockedUpdate(t) ==
    /\ health.updaters[t].pc = "idle"
    /\ health.started < MaxRaceUpdates
    /\ \E key \in DOMAIN health.metrics :
         health' = [health EXCEPT
             !.metrics[key] = update_from_request(@, FALSE),
             !.done[key] = @ + 1,
             !.started = @ + 1]
    /\ UNCHANGED now
    /\ HealthFrame

\* strategy.update_key_metrics(key, False): up to the load of
\* metrics.consecutive_failures
StrategyUpdateLoad(t) ==
    /\ health.updaters[t].pc = "idle"
    /\ health.started < MaxRaceUpdates
    /\ \E key \in DOMAIN health.metrics :
         health' = [health EXCEPT
             !.updaters[t] = [pc |-> "loaded", key |-> key,
                              loaded |-> health.metrics[key].consecutive_failures],
             !.started = @ + 1,
             !.unlocked = @ + 1]
    /\ UNCHANGED now
    /\ HealthFrame

\* strategy.update_key_metrics(key, False): the store and the rest
StrategyUpdateStore(t) ==
    /\ health.updaters[t].pc = "loaded"
    /\ LET key == health.updaters[t].key
           loaded == [health.metrics[key] EXCEPT
                         !.consecutive_failures = health.updaters[t].loaded]
       IN  health' = [health EXCEPT
               !.metrics[key] = health_update_key_metrics(loaded, FALSE,
                                    health.failure_threshold, now),
               !.done[key] = @ + 1,
               !.updaters[t] = IdleUpdater]
    /\ UNCHANGED now
    /\ HealthFrame

NextHealthRace ==
    \/ \E t \in Callers : LockedUpdate(t)
    \/ \E t \in Callers : StrategyUpdateLoad(t)
    \/ \E t \in Callers : StrategyUpdateStore(t)

SpecHealthRace == InitHealthRace /\ [][NextHealthRace]_vars

\* ------------------------------------------------------ locks and sleeps
\* What each operation does to the locks, in program order: "acquire" and
\* "release" are the entry and the exit of a "with <lock>:" block (all locks
\* are RLocks or are never re-entered), "sleep" is time.sleep /
\* asyncio.sleep.  The steps between them touch no lock and are left out.
\* A thread is [op, pc, held, asleep, slept]: held lists the locks it holds
\* in the order it acquired them, once per entry; slept says that the
\* operation it is in has been through its sleep.

Locks == {"keys", "metrics", "config", "ua", "cache", "rate_limit", "retry"}

Acq(l) == [kind |-> "acquire", lock |-> l]
Rel(l) == [kind |-> "release", lock |-> l]
Sleep == [kind |-> "sleep", lock |-> ""]

ProgramMetricsFirst(op) ==
    IF op = "export_config"
    THEN <<Acq("metrics"), Acq("keys"), Rel("keys"), Rel("metrics")>>
    ELSE IF op = "get_next_key"
    THEN <<Acq("keys"), Acq("metrics"), Rel("metrics"), Rel("keys")>>
    ELSE <<Acq("metrics"), Rel("metrics")>>

Program(op) ==
    CASE op = "get_next_key" ->
           <<Acq("keys"), Acq("metrics"), Rel("metrics"), Rel("keys")>>
      [] op = "_update_key_metrics" -> <<Acq("metrics"), Rel("metrics")>>
      [] op = "_remove_key_safely" ->
           <<Acq("keys"), Acq("metrics"), Acq("keys"), Rel("keys"),
             Rel("metrics"), Rel("keys")>>
      [] op = "reset_key_health" -> <<Acq("metrics"), Rel("metrics")>>
      [] op = "get_key_statistics" -> <<Acq("metrics"), Rel("metrics")>>
      [] op = "export_config" ->
           <<Acq("keys"), Acq("metrics"), Rel("metrics"), Rel("keys")>>
      [] op = "refresh_keys_from_provider" ->
           <<Acq("keys"), Acq("metrics"), Rel("metrics"), Rel("keys")>>
      [] op = "_prepare_headers_and_cookies" ->
           <<Acq("config"), Rel("config"), Acq("ua"), Rel("ua")>>
      [] op = "_apply_random_delay" -> <<Sleep>>
      [] op = "request.backoff" -> <<Acq("metrics"), Rel("metrics"), Sleep>>
      [] op = "RateLimitMiddleware.before_request" ->
           <<Acq("rate_limit"), Rel("rate_limit"), Sleep>>
      [] op = "RateLimitMiddleware.after_request" ->
           <<Acq("rate_limit"), Rel("rate_limit")>>
      [] op = "RetryMiddleware.on_error" ->
           <<Acq("retry"), Acq("retry"), Rel("retry"), Rel("retry"), Sleep>>
      [] op = "CachingMiddleware.before_request" ->
           <<Acq("cache"), Rel("cache")>>

Operations ==
    {"get_next_key", "_update_key_metrics", "_remove_key_safely", "reset_key_health",
     "get_key_statistics", "export_config", "refresh_keys_from_provider",
     "_prepare_headers_and_cookies", "_apply_random_delay", "request.backoff",
     "RateLimitMiddleware.before_request", "RateLimitMiddleware.after_request",
     "RetryMiddleware.on_error", "CachingMiddleware.before_request"}

IdleThread == [op |-> "none", pc |-> 1, held |-> <<>>, asleep |-> FALSE, slept |-> FALSE]

\* the thread that holds lock l, "none" if it is free
Owner(l) ==
    IF \E t \in DOMAIN locking.threads : l \in Range(locking.threads[t].held)
    THEN CHOOSE t \in DOMAIN locking.threads : l \in Range(locking.threads[t].held)
    ELSE "none"

\* the step thread t is about to take
NextStep(t) ==
    LET me == locking.threads[t] IN
    IF me.op = "none" \/ me.pc > Len(Program(me.op))
    THEN [kind |-> "none", lock |-> ""]
    ELSE Program(me.op)[me.pc]

ReleaseLockKeeps(held, l) == held

\* the exit of a "with" block gives up the entry made last
ReleaseLock(held, l) == SubSeq(held, 1, Len(held) - 1)

InitLocks ==
    /\ RotatorAtRest
    /\ caching = CachingIdle /\ cache_hist = CacheHistIdle
    /\ retry = RetryIdle /\ rate_limit = RateLimitIdle /\ pipeline = PipelineIdle
    /\ header_store = HeaderStoreIdle /\ variants = VariantsIdle
    /\ limiter = LimiterIdle /\ health = HealthIdle /\ keyed = KeyedIdle
    /\ legacy = LegacyIdle
    /\ now = 0
    /\ locking = [threads |-> [t \in Callers |-> IdleThread], started |-> 0]

LocksFrame ==
    /\ UNCHANGED <<keys, key_metrics, rotation_strategy, th, refreshes, hist, cl>>
    /\ UNCHANGED <<max_retries, should_retry_callback, middlewares, secret_provider,
                   upstream, caller_headers, header_store, variants, limiter, health, keyed, legacy>>
    /\ UNCHANGED middleware_vars

\* a thread calls one of the operations
StartOp(t) ==
    /\ locking.threads[t].op = "none"
    /\ locking.started < MaxLockOps
    /\ \E op \in Operations :
         locking' = [locking EXCEPT !.threads[t] = [IdleThread EXCEPT !.op = op],
                                    !.started = @ + 1]
    /\ LocksFrame

\* "with lock:" is entered; an RLock admits its owner again
Acquire(t) ==
    /\ ~locking.threads[t].asleep
    /\ NextStep(t).kind = "acquire"
    /\ Owner(NextStep(t).lock) \in {"none", t}
    /\ locking' = [locking EXCEPT !.threads[t].held = Append(@, NextStep(t).lock),
                                  !.threads[t].pc = @ + 1]
    /\ LocksFrame

\* the "with" block is left
Release(t) ==
    /\ NextStep(t).kind = "release"
    /\ locking' = [locking EXCEPT !.threads[t].held = ReleaseLock(@, NextStep(t).lock),
                                  !.threads[t].pc = @ + 1]
    /\ LocksFrame

\* the sleep starts, or is skipped when there is nothing to wait for
Suspend(t) ==
    /\ ~locking.threads[t].asleep
    /\ NextStep(t).kind = "sleep"
    /\ \/ locking' = [locking EXCEPT !.threads[t].asleep = TRUE]
       \/ locking' = [locking EXCEPT !.threads[t].pc = @ + 1]
    /\ LocksFrame

\* the sleep ends
Wake(t) ==
    /\ locking.threads[t].asleep
    /\ locking' = [locking EXCEPT !.threads[t].asleep = FALSE,
                                  !.threads[t].slept = TRUE,
                                  !.threads[t].pc = @ + 1]
    /\ LocksFrame

\* the operation returns
Return(t) ==
    /\ locking.threads[t].op # "none"
    /\ locking.threads[t].pc > Len(Program(locking.threads[t].op))
    /\ locking' = [locking EXCEPT !.threads[t] =
                      [IdleThread EXCEPT !.held = locking.threads[t].held]]
    /\ LocksFrame

NextLocks ==
    \/ \E t \in Callers : StartOp(t)
    \/ \E t \in Callers : Acquire(t)
    \/ \E t \in Callers : Release(t)
    \/ \E t \in Callers : Suspend(t)
    \/ \E t \in Callers : Wake(t)
    \/ \E t \in Callers : Return(t)

SpecLocks == InitLocks /\ [][NextLocks]_vars

\* ------------------------------------------------------- cache key inputs
\* _get_cache_key applied to two requests, one after the other.  The
\* requests differ in method, url, selected key, credential headers, other
\* headers and body; a url or a body may itself hold the separator and the
\* text of a header dump.

HeaderDumpText == <<"{", "Accept", ":", "x", "}">>

KeyUrls == {<<"/a">>, <<"/b">>, <<"/a", "|">> \o HeaderDumpText}

CredentialHeaders(key) ==
    {{}, {<<"Authorization", key>>}, {<<"x-api-key", key>>},
     {<<"AUTHORIZATION", key>>, <<"User-Agent", "ua">>, <<"COOKIE", "c">>}}

OtherHeaders == {{}, {<<"Accept", "x">>}, {<<"accept", "x">>}}

KeyRequests ==
    {[method |-> m, url |-> u, key |-> k, headers |-> c \cup o, body |-> b] :
        m \in {"GET", "get", "POST"}, u \in KeyUrls, k \in Range(AllKeys),
        c \in UNION {CredentialHeaders(key) : key \in Range(AllKeys)},
        o \in OtherHeaders, b \in {<<>>, HeaderDumpText}}

InitCacheKey ==
    /\ RotatorAtRest
    /\ caching = CachingIdle /\ cache_hist = CacheHistIdle
    /\ retry = RetryIdle /\ rate_limit = RateLimitIdle /\ pipeline = PipelineIdle
    /\ header_store = HeaderStoreIdle /\ variants = VariantsIdle
    /\ limiter = LimiterIdle /\ health = HealthIdle /\ locking = LockingIdle
    /\ now = 0
    /\ keyed = <<>>
    /\ legacy = LegacyIdle

\* cache._get_cache_key(request_info), for at most two requests
GetCacheKey ==
    /\ Len(keyed) < 2
    /\ \E request_info \in KeyRequests :
         /\ \A h \in request_info.headers :
               Lower(h[1]) \in {"authorization", "x-api-key"} => h[2] = request_info.key
         /\ keyed' = Append(keyed, [request_info |-> request_info,
                                    cache_key |-> cache_key_of(request_info)])
    /\ UNCHANGED <<keys, key_metrics, rotation_strategy, th, refreshes, hist, cl>>
    /\ UNCHANGED <<max_retries, should_retry_callback, middlewares, secret_provider,
                   upstream, caller_headers, header_store, variants, limiter, health,
                   locking, legacy>>
    /\ UNCHANGED middleware_vars

NextCacheKey == GetCacheKey

SpecCacheKey == InitCacheKey /\ [][NextCacheKey]_vars

\* ------------------------------------------- the legacy rotator (rotator.py)
\* apikeyrotator/rotator.py, the module the package exports: the rotator
\* keeps its own cursor current_index over self.keys.  legacy is the
\* rotator and its one caller: pc is where the caller is in request(),
\* result what the last request gave.

LegacyStatuses == {200, 401, 429}

\* what session.request gives: a response, or requests.RequestException
LegacyOutcomes ==
    [status_code : LegacyStatuses, exception : {"none"}]
        \cup [status_code : {200}, exception : {"RequestException"}]

\* BaseKeyRotator.get_next_key: self.keys[self.current_index], then the
\* cursor moves on; an index past the end raises IndexError
legacy_get_next_key(keys_list, current_index) ==
    IF current_index >= Len(keys_list)
    THEN [key |-> "", current_index |-> current_index, raised |-> "IndexError"]
    ELSE [key |-> keys_list[current_index + 1],
          current_index |-> (current_index + 1) % Len(keys_list),
          raised |-> "none"]

NoLegacyOutcome == [status_code |-> 0, exception |-> "none"]

\* BaseKeyRotator.__init__
LegacyRotator(api_keys, max_retries_arg) ==
    [keys |-> api_keys, current_index |-> 0, max_retries |-> max_retries_arg,
     pc |-> "idle", attempt |-> 0, key |-> "", result |-> "none", requests |-> 0,
     removed |-> FALSE, outcome |-> NoLegacyOutcome]

InitLegacy ==
    /\ RotatorAtRest
    /\ caching = CachingIdle /\ cache_hist = CacheHistIdle
    /\ retry = RetryIdle /\ rate_limit = RateLimitIdle /\ pipeline = PipelineIdle
    /\ header_store = HeaderStoreIdle /\ variants = VariantsIdle
    /\ limiter = LimiterIdle /\ health = HealthIdle /\ locking = LockingIdle
    /\ keyed = KeyedIdle
    /\ now = 0
    /\ \E api_keys \in InitialPools, max_retries_arg \in 1..MaxRetriesCfg :
         legacy = LegacyRotator(api_keys, max_retries_arg)

LegacyFrame ==
    /\ UNCHANGED <<keys, key_metrics, rotation_strategy, th, refreshes, hist, cl>>
    /\ UNCHANGED <<max_retries, should_retry_callback, middlewares, secret_provider,
                   upstream, caller_headers, header_store, variants, limiter, health,
                   locking, keyed>>
    /\ UNCHANGED middleware_vars

\* request() is called
LegacyRequest ==
    /\ legacy.pc \in {"idle", "done"}
    /\ legacy.keys # <<>>
    /\ legacy.requests < MaxLegacyRequests
    /\ legacy' = [legacy EXCEPT !.pc = "loop", !.attempt = 0, !.key = "",
                                !.result = "none", !.requests = @ + 1,
                                !.removed = FALSE, !.outcome = NoLegacyOutcome]
    /\ LegacyFrame

\* request(): "for attempt in range(self.max_retries): key = self.get_next_key()"
LegacyNextAttempt ==
    /\ legacy.pc = "loop"
    /\ IF legacy.attempt >= legacy.max_retries
       THEN legacy' = [legacy EXCEPT !.pc = "done", !.result = "AllKeysExhaustedError"]
       ELSE LET got == legacy_get_next_key(legacy.keys, legacy.current_index) IN
            IF got.raised # "none"
            THEN legacy' = [legacy EXCEPT !.pc = "done", !.result = got.raised]
            ELSE legacy' = [legacy EXCEPT !.pc = "send", !.key = got.key,
                                          !.current_index = got.current_index]
    /\ LegacyFrame

\* request(): the send and the branches on its answer
LegacyRespond ==
    /\ legacy.pc = "send"
    /\ \E outcome \in LegacyOutcomes :
         LET error_type == classify_error({outcome.status_code}, "none") IN
         IF outcome.exception # "none"
         THEN legacy' = [legacy EXCEPT !.outcome = outcome, !.pc = "loop", !.attempt = @ + 1,
                                       !.removed = FALSE]
         ELSE IF error_type = "permanent"
         THEN LET ks == RemoveFirst(legacy.keys, legacy.key) IN
              IF ks = <<>>
              THEN legacy' = [legacy EXCEPT !.outcome = outcome, !.keys = ks, !.pc = "done",
                                            !.result = "AllKeysExhaustedError",
                                            !.removed = TRUE]
              ELSE legacy' = [legacy EXCEPT !.outcome = outcome, !.keys = ks, !.pc = "loop",
                                            !.attempt = @ + 1, !.removed = TRUE]
         ELSE IF error_type \in {"rate_limit", "temporary"}
         THEN legacy' = [legacy EXCEPT !.outcome = outcome, !.pc = "loop", !.attempt = @ + 1,
                                       !.removed = FALSE]
         ELSE legacy' = [legacy EXCEPT !.outcome = outcome, !.pc = "done", !.result = "response",
                                       !.removed = FALSE]
    /\ LegacyFrame

NextLegacy == LegacyRequest \/ LegacyNextAttempt \/ LegacyRespond

SpecLegacy == InitLegacy /\ [][NextLegacy]_vars

\* ================================================================ claims
Done(c) == th[c].pc = "done"
Started(c) == Done(c) /\ th[c].result # "ValueError"
\* the step in which get_next_key hands caller c a key
Selects(c) == th[c].pc = "loop" /\ th'[c].pc = "send"

OnlyStatus(s) == upstream = [statuses |-> {s}, exceptions |-> {}]

\* C1: on every attempt of a request whose caller supplied no auth header
\* (and no header_callback), the credential in the outgoing Authorization /
\* X-API-Key header is the key get_next_key selected for that attempt.
C1_CredentialIsSelectedKey ==
    \A c \in DOMAIN th :
        (th[c].pc = "send" /\ th[c].headers.Authorization # "caller")
        => LET h == th[c].headers
               k == th[c].key
           IN  /\ h.Authorization = k \/ h.XAPIKey = k
               /\ h.Authorization \in {"absent", k}
               /\ h.XAPIKey \in {"absent", k}

\* The pool is what was last installed (at construction or by a refresh)
\* minus the keys evicted since: every eviction of a pool member shrinks the
\* pool by exactly one, however many attempts evict the same key.
C2_PoolShrinksByOne ==
    /\ \A k \in hist.evicted : k \notin Range(keys)
    /\ Len(keys) = Len(hist.installed)
                     - Cardinality(hist.evicted \cap Range(hist.installed))

C3_ExhaustedAfterTwoSends ==
    \A c \in DOMAIN th :
        (Started(c) /\ OnlyStatus(429) /\ refreshes = 0
           /\ Len(hist.installed) = 2 /\ max_retries = 1)
        => th[c].result = "AllKeysExhaustedError" /\ hist.sends = 2

\* C4: a Permanent response evicts the key and consumes no attempt: if every
\* key is answered Permanent, the request fails with AllKeysExhaustedError
\* after exactly one send per key of the initial pool, with the pool empty,
\* whatever max_retries is.
C4_AllPermanentExhaustsPool ==
    \A c \in DOMAIN th :
        (Started(c) /\ OnlyStatus(401) /\ refreshes = 0)
        => /\ th[c].result = "AllKeysExhaustedError"
           /\ hist.sends = Len(hist.installed)
           /\ keys = <<>>

C4_Witness ==
    /\ Started("c1") /\ OnlyStatus(401) /\ refreshes = 0
    /\ max_retries = 1 /\ Len(hist.installed) = 2 /\ hist.sends = 2
    /\ th["c1"].result = "AllKeysExhaustedError"

\* C5: if the first k attempts (k < max_retries) are answered 429 or 503 and
\* attempt k+1 is answered with a non-error response, the request returns
\* that response after exactly k+1 sends (so the request is not given up
\* while k < max_retries) and evicts no key.
RetryableThenOk == upstream = [statuses |-> {200, 429, 503}, exceptions |-> {}]

C5_RetryThenSuccess ==
    \A c \in DOMAIN th :
        (Started(c) /\ RetryableThenOk)
        => /\ hist.evicted_ever = {}
           /\ hist.ok >= 1 => /\ th[c].result = "response"
                              /\ hist.ok = 1
                              /\ hist.sends = th[c].attempt + 1
                              /\ hist.sends <= max_retries
           /\ hist.ok = 0 => /\ th[c].result = "AllKeysExhaustedError"
                             /\ hist.sends = max_retries

C5_Witness ==
    /\ Started("c1") /\ RetryableThenOk
    /\ th["c1"].result = "response" /\ hist.sends = 2 /\ hist.ok = 1

\* C6: a should_retry_callback alone decides whether a received response is
\* retried: a 429 for which the callback returns false is returned to the
\* caller after that single send.
C6_CallbackAloneDecides ==
    \A c \in DOMAIN th :
        (Started(c) /\ OnlyStatus(429) /\ should_retry_callback = "retry503")
        => th[c].result = "response" /\ hist.sends = 1

\* C7: a call of request returns a response or fails with
\* AllKeysExhaustedError or the empty-URL ValueError; no raw transport
\* exception reaches the caller.
C7_NoRawTransportException ==
    \A c \in DOMAIN th :
        Done(c) => th[c].result \in {"response", "AllKeysExhaustedError", "ValueError"}

C7_Witness ==
    /\ Started("c1")
    /\ upstream = [statuses |-> {}, exceptions |-> Exceptions]
    /\ hist.sends = max_retries
    /\ th["c1"].result = "AllKeysExhaustedError"

\* C8: after a refresh with a non-empty list the strategy is replaced with
\* the pool: every key get_next_key returns afterwards is in the new pool.
C8_ReturnedKeyInRefreshedPool ==
    [][\A c \in DOMAIN th :
         (Selects(c) /\ hist.stale) => th'[c].key \in Range(keys)]_vars

\* C9: while the pool membership does not change, the i-th get_next_key since
\* the strategy was (re)built returns k(i mod n); an eviction leaves the
\* remaining keys in their original relative order and restarts the cursor
\* at 0 over them.
NotEvicted(k) == k \notin hist.evicted

C10_Expected(response, exception) ==
    IF exception \in {"ConnectionError", "Timeout"} THEN "network"
    ELSE IF exception # "none" THEN "unknown"
    ELSE IF response = {} THEN "unknown"
    ELSE IF response = {429} THEN "rate_limit"
    ELSE IF response \subseteq {500, 502, 503, 504} THEN "temporary"
    ELSE IF \E s \in response : s >= 400 /\ s < 500 THEN "permanent"
    ELSE "unknown"

C10_ClassifierMapping ==
    cl.result # "unset"
    => /\ cl.result \in ErrorType
       /\ cl.result = C10_Expected(cl.response, cl.exception)

C10_Witness ==
    /\ cl.response = {400} /\ cl.exception = "none" /\ cl.result = "permanent"

\* ------------------------------------------------------------ the cache
\* the step is a call of the named hook
CacheCall(op, calls) ==
    /\ cache_hist'.last.op = op
    /\ cache_hist'.calls = cache_hist.calls + calls

\* C11: a repeated identical request that is a cache hit is served without
\* invoking the transport again.
C11_HitSkipsTransport ==
    [][(CacheCall("request", 2) /\ caching'.hits = caching.hits + 1)
         => ~cache_hist'.last.sent]_vars

\* C12: a cache lookup is a hit if and only if an entry for the cache key
\* exists and now - entry.timestamp < ttl; a lookup that finds an entry of
\* age >= ttl removes it and is counted as a miss.
C12_HitIffFresh ==
    [][(CacheCall("before_request", 1)
          /\ caching'.hits + caching'.misses = caching.hits + caching.misses + 1)
         => LET cache_key == cache_hist'.last.key
                exists == cache_key \in CacheKeys(caching.cache)
                fresh == /\ exists
                         /\ now - CachedEntry(caching.cache, cache_key).timestamp < caching.ttl
            IN  /\ fresh <=> caching'.hits = caching.hits + 1
                /\ ~fresh <=> caching'.misses = caching.misses + 1
                /\ fresh => cache_key \in CacheKeys(caching'.cache)
                /\ (exists /\ ~fresh) => cache_key \notin CacheKeys(caching'.cache)]_vars

\* an entry was hit while fresh, then looked up when stale: removed, a miss
C12_Witness ==
    /\ cache_hist.last.op = "before_request"
    /\ cache_hist.last.evicted = {cache_hist.last.key}
    /\ caching.hits = 1 /\ caching.misses = 1
    /\ now >= caching.ttl

\* C13: inserting a new entry into a cache that holds max_cache_size entries
\* (byte budget not binding) evicts exactly one entry, the least recently
\* used one, hits counting as use; the other entries and the new one remain.
C13_EvictsLeastRecentlyUsed ==
    [][(/\ CacheCall("after_request", 1)
        /\ cache_hist'.last.key \notin CacheKeys(caching.cache)
        /\ cache_hist'.last.key \in CacheKeys(caching'.cache)
        /\ Len(caching.cache) = caching.max_cache_size)
         => /\ CacheKeys(caching'.cache) =
                 (CacheKeys(caching.cache) \ {Head(cache_hist.recency)})
                    \cup {cache_hist'.last.key}
            /\ Len(caching'.cache) = caching.max_cache_size]_vars

\* a full cache of two entries, one of them hit, has taken a third key
C13_Witness ==
    /\ cache_hist.last.op = "after_request"
    /\ Cardinality(cache_hist.last.evicted) = 1
    /\ caching.max_cache_size = 2 /\ Len(caching.cache) = 2
    /\ caching.cache[2].key = cache_hist.last.key
    /\ caching.hits = 1

\* C14: after_request stores a response only if every eligibility condition
\* holds (2xx, GET under the GET-only policy, no Set-Cookie header, no
\* streaming Content-Type, Cache-Control without no-store/private, size within
\* the per-response cap, no sensitive path); a failed check leaves the cache
\* unchanged.
C14_StoresOnlyEligible ==
    [][(CacheCall("after_request", 1) /\ ~cache_hist'.last.eligible)
         => caching'.cache = caching.cache]_vars

\* C15: the total byte footprint of the stored entries never exceeds
\* max_cache_size_bytes.
C15_ByteBudgetRespected ==
    get_total_cache_size(caching.cache) <= caching.max_cache_size_bytes

\* C16: a response larger than the total byte budget is never cached and
\* admitting it evicts no entry.
C16_OversizeLeavesCacheAlone ==
    [][(CacheCall("after_request", 1) /\ cache_hist'.last.oversize)
         => caching'.cache = caching.cache]_vars

\* ------------------------------------------------------------ retries
\* C18: on_error for a URL whose counter c is below max_retries sets the
\* counter to c + 1, sleeps backoff_factor^c seconds and reports handled;
\* with c >= max_retries it untracks the URL and reports unhandled;
\* after_request on a 2xx response removes the URL's counter.
C18_RetryBookkeeping ==
    [][retry'.calls = retry.calls + 1
         => LET url == retry'.last.url
                c == RetryCount(retry.retry_counts, url)
            IN  /\ (retry'.last.op = "on_error" /\ c < retry.max_retries)
                     => /\ RetryCount(retry'.retry_counts, url) = c + 1
                        /\ url \in TrackedUrls(retry'.retry_counts)
                        /\ retry'.last.wait.num * Pow(2, c) =
                             Pow(retry.backoff_factor, c) * retry'.last.wait.den
                        /\ retry'.last.handled
                /\ (retry'.last.op = "on_error" /\ c >= retry.max_retries)
                     => /\ url \notin TrackedUrls(retry'.retry_counts)
                        /\ ~retry'.last.handled
                /\ (retry'.last.op = "after_request"
                      /\ retry'.last.status_code \in 200..299)
                     => url \notin TrackedUrls(retry'.retry_counts)]_vars

\* a URL was retried up to the cap and the next error was refused
C18_Witness ==
    /\ retry.last.op = "on_error" /\ ~retry.last.handled
    /\ retry.max_retries = 2 /\ retry.calls = 3
    /\ retry.last.url \notin TrackedUrls(retry.retry_counts)

\* delay d is shorter than delay e
Shorter(d, e) == d.num * e.den < e.num * d.den

\* the delays slept for each tracked URL, in the order they were slept
DelaysOrdered(Ordered(_, _)) ==
    \A url \in DOMAIN retry.delays :
        \A i \in 1..(Len(retry.delays[url]) - 1) :
            Ordered(retry.delays[url][i], retry.delays[url][i + 1])

NotLonger(d, e) == ~Shorter(e, d)

\* the retry cap: at most max_retries delays per URL, and the error after the
\* last of them is refused and the URL untracked
StopsAtCap ==
    /\ [](\A url \in DOMAIN retry.delays : Len(retry.delays[url]) <= retry.max_retries)
    /\ [][\A url \in DOMAIN retry.delays :
            (/\ Len(retry.delays[url]) = retry.max_retries
             /\ retry'.calls = retry.calls + 1
             /\ retry'.last.op = "on_error" /\ retry'.last.url = url)
            => ~retry'.last.handled /\ url \notin DOMAIN retry'.delays]_vars

\* C19 as stated: for any accepted configuration the delays of successive
\* errors of one URL strictly increase until the retry cap is reached, after
\* which the URL is no longer retried.
C19_DelaysStrictlyIncrease ==
    /\ []DelaysOrdered(Shorter)
    /\ StopsAtCap

\* C19 amended: while a URL's counter stays tracked the delays of its
\* successive errors never decrease, and strictly increase when
\* backoff_factor > 1; after max_retries delays the URL is no longer retried.
C19_DelaysIncreaseAboveOne ==
    /\ [](/\ DelaysOrdered(NotLonger)
          /\ retry.backoff_factor > 2 => DelaysOrdered(Shorter))
    /\ StopsAtCap

\* three growing delays for one URL under backoff_factor 1.5
C19_Witness ==
    /\ retry.backoff_factor = 3 /\ retry.max_retries = 3
    /\ \E url \in DOMAIN retry.delays :
         /\ Len(retry.delays[url]) = 3
         /\ Shorter(retry.delays[url][2], retry.delays[url][3])

\* ------------------------------------------------------------ rate limits
\* the seconds a response asks to wait: its Retry-After header, a header name
\* being case-insensitive, if that is an integer
RetryAfterOf(headers) ==
    UNION {ParseInt(h[2]) : h \in {g \in headers : Lower(g[1]) = "retry-after"}}

\* C20: on_error reports handled iff the error carries a response with status
\* 429; then the key's reset time becomes now + Retry-After seconds, or
\* now + 60 when Retry-After is absent or not an integer; any other error is
\* unhandled and leaves the tracking table unchanged.
C20_Handles429Only ==
    [][rate_limit'.calls = rate_limit.calls + 1
         => LET error_info == rate_limit'.last.error_info
                is_429 == \E response_info \in error_info.response_info :
                              response_info.status_code = 429
            IN  /\ rate_limit'.last.handled <=> is_429
                /\ ~is_429 => rate_limit'.rate_limits = rate_limit.rate_limits
                /\ is_429 =>
                     LET headers == (CHOOSE x \in error_info.response_info : TRUE).headers
                         retry_after == IF RetryAfterOf(headers) # {}
                                        THEN CHOOSE n \in RetryAfterOf(headers) : TRUE
                                        ELSE 60
                     IN  /\ DOMAIN rate_limit'.rate_limits =
                              (DOMAIN rate_limit.rate_limits) \cup {error_info.key}
                         /\ rate_limit'.rate_limits[error_info.key].reset_time =
                              now + retry_after
                         /\ \A key \in (DOMAIN rate_limit.rate_limits) \ {error_info.key} :
                              rate_limit'.rate_limits[key] = rate_limit.rate_limits[key]]_vars

\* ------------------------------------------------------------ the pipeline
\* the indices 1..n in order
UpTo(n) == [i \in 1..n |-> i]

\* the first middleware whose on_error reports handled, or the last one
FirstHandler(mws) ==
    IF \E i \in 1..Len(mws) : mws[i].handles
    THEN CHOOSE i \in 1..Len(mws) :
             mws[i].handles /\ \A j \in 1..(i - 1) : ~mws[j].handles
    ELSE Len(mws)

\* C17: for a pipeline registered as [m1..mn], before_request and
\* after_request are invoked on m1..mn in that order, each receiving the
\* previous middleware's output; on_error is invoked in that order and stops
\* at the first middleware that reports handled, invoking no later one.
C17_RegistrationOrder ==
    LET mws == pipeline.middlewares IN
    /\ pipeline.hook \in {"before_request", "after_request"}
         => /\ pipeline.invoked = UpTo(Len(mws))
            /\ pipeline.value = UpTo(Len(mws))
    /\ pipeline.hook = "on_error"
         => /\ pipeline.invoked = UpTo(FirstHandler(mws))
            /\ pipeline.handled <=> \E i \in 1..Len(mws) : mws[i].handles

\* C27: every attempt that ends in a transport exception the rotator catches
\* consumes one attempt slot and records one failure for the selected key,
\* whether or not an on_error handler reported the error handled
C27_ExceptionConsumesAttempt ==
    [][\A c \in DOMAIN th :
         (th[c].pc = "except" /\ Caught(th[c].exception) /\ th'[c].pc # "except")
             => /\ th'[c].attempt = th[c].attempt + 1
                /\ key_metrics' = UpdateKeyMetrics(key_metrics, th[c].key, FALSE)]_vars

\* C28: a single caller, without key refresh and without a middleware that
\* reports errors handled: the call to request terminates, and it never makes
\* more than max_retries + (initial pool size) transport sends
C28_TerminatesWithinBudget ==
    /\ [](hist.sends <= max_retries + Len(hist.installed))
    /\ <>Done("c1")

\* a call that ended after max_retries + (pool size) - 1 sends, having evicted
\* a key on the way
C28_Witness ==
    /\ Done("c1")
    /\ hist.evicted # {}
    /\ hist.sends = max_retries + Len(hist.installed) - 1
    /\ hist.sends >= 3

\* C30: concurrent requests with evictions and no key refresh: every key
\* get_next_key hands out is in the pool at that instant, and the strategy a
\* caller selects from was built over exactly the current pool
C30_SelectionExcludesRebuild ==
    /\ [](refreshes = 0 /\ keys # <<>> => rotation_strategy.keys = keys)
    /\ [][\A c \in DOMAIN th :
            (Selects(c) /\ refreshes = 0)
                => /\ rotation_strategy.keys = keys
                   /\ th'[c].key \in Range(keys)]_vars

\* both callers hold the surviving key: one of them selected it from the
\* strategy rebuilt by its own eviction while the other was in flight
C30_Witness ==
    /\ refreshes = 0
    /\ hist.evicted # {}
    /\ \A c \in Callers : th[c].pc = "send"
    /\ th["c1"].key = th["c2"].key

C26_SavedHeadersHoldNoCredential ==
    /\ [](\A d \in DOMAIN header_store.successful_headers :
            \A h \in header_store.successful_headers[d] :
               Lower(h) \notin {"authorization", "x-api-key"})
    /\ [](~header_store.save_sensitive_headers
              => DOMAIN header_store.successful_headers = {})
    /\ [][header_store'.successful_headers # header_store.successful_headers
            => /\ Decide(should_retry_callback, header_store'.last.status) = "return"
               /\ header_store'.last.domain \notin DOMAIN header_store.successful_headers
               /\ \A d \in DOMAIN header_store.successful_headers :
                    header_store'.successful_headers[d] = header_store.successful_headers[d]]_vars

\* C25: fed the same pool, max_retries and upstream outcomes, the sync and
\* the async request make the same number of sends, evict the same keys and
\* end alike: both with the response, or both with the same failure
C25_VariantsAgree ==
    (variants.sync.result # "none" /\ variants.async.result # "none")
        => /\ variants.sync.sends = variants.async.sends
           /\ variants.sync.evicted = variants.async.evicted
           /\ variants.sync.result = variants.async.result

\* C21: whatever before_request, after_request and on_error calls are made,
\* the table never tracks more than max_tracked_keys keys
C21_TableBounded == Len(limiter.rate_limits) <= limiter.max_tracked_keys

\* C22 as stated: with pause_on_limit, when before_request returns for a key
\* the reset time recorded for the key is not in the future, also when the
\* limit was recorded or extended while the call was waiting
C22_ReturnsAfterReset ==
    [][(limiter'.returns # limiter.returns /\ limiter.pause_on_limit)
          => ResetTimeOf(limiter'.rate_limits, limiter'.last.key) <= now']_vars

\* C22, amended: when before_request returns for a key, the reset time that
\* was recorded for the key when the call began is not in the future
C22_ReturnsAfterResetSeen ==
    [][(limiter'.returns # limiter.returns /\ limiter.pause_on_limit)
          => limiter'.last.seen <= now']_vars

\* a call slept and returned, and the key's limit was extended meanwhile
C22_Witness ==
    /\ limiter.pause_on_limit
    /\ limiter.last.waited
    /\ limiter.last.seen <= now
    /\ ResetTimeOf(limiter.rate_limits, limiter.last.key) > limiter.last.seen

\* the health implication for one KeyMetrics
HealthConsistent(m) == m.consecutive_failures >= health.failure_threshold => ~m.is_healthy

\* a success update has just been applied to the record m of the strategy
AfterSuccess(m) == m.consecutive_failures = 0 /\ m.is_healthy

\* C23 as stated: in every state every key's metrics have
\* consecutive_failures >= failure_threshold only if is_healthy is false, and
\* right after a success update consecutive_failures = 0 and is_healthy
C23_HealthInvariant ==
    /\ \A k \in DOMAIN health.metrics : HealthConsistent(health.metrics[k])
    /\ \A k \in DOMAIN health.rotator_metrics : HealthConsistent(health.rotator_metrics[k])
    /\ (health.last.op = "update_key_metrics" /\ health.last.success
        /\ health.last.key \in DOMAIN health.metrics)
           => AfterSuccess(health.metrics[health.last.key])

\* C23, amended: the same, except for the keys that get_next_key's
\* optimistic recovery has marked healthy since their last update or reset
C23_HealthInvariantButRecovered ==
    /\ \A k \in DOMAIN health.metrics \ health.recovered :
          HealthConsistent(health.metrics[k])
    /\ \A k \in DOMAIN health.rotator_metrics \ health.recovered :
          HealthConsistent(health.rotator_metrics[k])
    /\ (health.last.op = "update_key_metrics" /\ health.last.success
        /\ health.last.key \in DOMAIN health.metrics)
           => AfterSuccess(health.metrics[health.last.key])

\* a key reached the threshold and was marked unhealthy by its last update
C23_Witness ==
    /\ health.last.op = "update_key_metrics" /\ ~health.last.success
    /\ health.last.key \in DOMAIN health.metrics
    /\ health.metrics[health.last.key].consecutive_failures >= health.failure_threshold
    /\ health.failure_threshold = FailureThreshold
    /\ ~health.metrics[health.last.key].is_healthy

\* C24: get_next_key returns a key that is healthy or idle for longer than
\* health_check_interval whenever there is one, else marks all keys healthy
\* and returns one of them: it fails only when the pool is empty
C24_SelectsHealthyKey ==
    (health.last.op = "get_next_key" /\ DOMAIN health.metrics # {})
        => health.last.result \in DOMAIN health.metrics

\* C31: evicting a key rebuilds a strategy of the kind in use before the
\* eviction and leaves the metrics record of every remaining key unchanged
C31_EvictionKeepsKindAndMetrics ==
    [][keys' # keys =>
          /\ rotation_strategy'.kind = rotation_strategy.kind
          /\ \A k \in Range(keys') :
                k \in DOMAIN key_metrics' /\ key_metrics'[k] = key_metrics[k]]_vars

\* the part of C31 about the metrics alone, for a pool that lists no key twice
C31_EvictionKeepsMetrics ==
    [][(keys' # keys /\ Cardinality(Range(keys)) = Len(keys)) =>
          \A k \in Range(keys') :
              k \in DOMAIN key_metrics' /\ key_metrics'[k] = key_metrics[k]]_vars

\* no update is between its load and its store
UpdatersIdle == \A t \in DOMAIN health.updaters : health.updaters[t].pc = "idle"

\* C32: after n concurrent failure updates on one key, with no success or
\* reset between them, the key's consecutive-failure count has grown by n
C32_NoLostUpdate ==
    UpdatersIdle =>
        \A k \in DOMAIN health.metrics :
            health.metrics[k].consecutive_failures = health.done[k]

\* the same for the updates made through the rotator's locked
\* _update_key_metrics alone
C32_NoLostLockedUpdate ==
    health.unlocked = 0 =>
        \A k \in DOMAIN health.metrics :
            health.metrics[k].consecutive_failures = health.done[k]

\* thread t waits for a lock that another thread holds
Blocked(t) ==
    /\ NextStep(t).kind = "acquire"
    /\ Owner(NextStep(t).lock) \notin {"none", t}

\* C33: a thread suspended in the pacing delay, the backoff sleep or the
\* rate-limit pause holds no lock, so no other thread waits for a lock of a
\* sleeping thread
C33_NoLockHeldWhileSuspended ==
    \A t \in DOMAIN locking.threads :
        locking.threads[t].asleep =>
            /\ locking.threads[t].held = <<>>
            /\ \A u \in DOMAIN locking.threads :
                  Blocked(u) => Owner(NextStep(u).lock) # t

\* one thread sleeps in the rate-limit pause while the other is inside the
\* rate-limit table's lock
C33_Witness ==
    /\ locking.threads["c1"].asleep
    /\ locking.threads["c1"].op = "RateLimitMiddleware.before_request"
    /\ locking.threads["c2"].held = <<"rate_limit">>

\* the place of lock l's first entry in what a thread holds, 0 if it holds none
FirstEntry(held, l) ==
    IF l \notin Range(held) THEN 0
    ELSE CHOOSE i \in 1..Len(held) : held[i] = l /\ \A j \in 1..(i - 1) : held[j] # l

\* some threads wait for one another's locks
Deadlocked ==
    \E S \in SUBSET (DOMAIN locking.threads) :
        /\ S # {}
        /\ \A t \in S : Blocked(t) /\ Owner(NextStep(t).lock) \in S

\* C39: a thread that holds both the keys lock and the metrics lock acquired
\* the keys lock first, and the threads never wait for one another's locks
C39_KeysLockFirst ==
    /\ \A t \in DOMAIN locking.threads :
          LET held == locking.threads[t].held IN
          ("keys" \in Range(held) /\ "metrics" \in Range(held))
              => FirstEntry(held, "keys") < FirstEntry(held, "metrics")
    /\ ~Deadlocked

\* one thread is inside both locks, re-entering the keys lock to rebuild the
\* strategy, while the other waits for the metrics lock
C39_Witness ==
    /\ locking.threads["c1"].op = "_remove_key_safely"
    /\ locking.threads["c1"].held = <<"keys", "metrics", "keys">>
    /\ locking.threads["c2"].op = "reset_key_health"
    /\ Blocked("c2")

\* C34: however before_request and after_request calls interleave, each
\* evicts and inserts in one step under the cache's lock, and the cache never
\* holds more than max_cache_size entries
C34_CountWithinBudget ==
    /\ Len(caching.cache) <= caching.max_cache_size
    /\ Cardinality(CacheKeys(caching.cache)) = Len(caching.cache)

\* a full cache has just taken a new key in by evicting another
C34_Witness ==
    /\ cache_hist.last.op = "after_request"
    /\ cache_hist.last.evicted # {}
    /\ cache_hist.last.key \in CacheKeys(caching.cache)
    /\ Len(caching.cache) = caching.max_cache_size
    /\ caching.max_cache_size = MaxCacheEntries

\* the request of the call just made is one the cache looks up
LookedUp == ~(caching.cache_only_get /\ cache_hist'.last.key[1] # "GET")

\* C35: a lookup of a cacheable request adds one to exactly one of hits and
\* misses; clear_cache empties the cache and zeroes both in one step; every
\* other operation leaves both alone; get_stats reports hits / (hits +
\* misses) as hit_rate, and 0 when nothing was looked up
C35_CountersAndStats ==
    /\ [][LET unchanged == caching'.hits = caching.hits /\ caching'.misses = caching.misses
              one_more == \/ /\ caching'.hits = caching.hits + 1
                             /\ caching'.misses = caching.misses
                          \/ /\ caching'.hits = caching.hits
                             /\ caching'.misses = caching.misses + 1
          IN  IF CacheCall("before_request", 1) \/ CacheCall("request", 2)
              THEN IF LookedUp THEN one_more ELSE unchanged
              ELSE IF cache_hist'.last.op = "clear_cache" /\ cache_hist'.calls = cache_hist.calls
              THEN caching'.cache = <<>> /\ caching'.hits = 0 /\ caching'.misses = 0
              ELSE unchanged]_vars
    /\ [](LET stats == get_stats(caching) IN
          /\ stats.hits = caching.hits /\ stats.misses = caching.misses
          /\ IF caching.hits + caching.misses > 0
             THEN stats.hit_rate[1] * (caching.hits + caching.misses)
                      = caching.hits * stats.hit_rate[2]
             ELSE stats.hit_rate[1] = 0)

\* a miss, a store and a hit, as in test_get_stats: the hit rate is one half
C35_Witness ==
    /\ cache_hist.last.op = "before_request"
    /\ caching.cache_only_get
    /\ caching.hits = 1 /\ caching.misses = 1
    /\ get_stats(caching).hit_rate = <<1, 2>>

\* the two requests given to _get_cache_key
BothKeyed == Len(keyed) = 2

\* the two requests are alike in all but the selected key and the
\* credential, user-agent and cookie headers
AlikeButCredential ==
    /\ keyed[1].request_info.method = keyed[2].request_info.method
    /\ keyed[1].request_info.url = keyed[2].request_info.url
    /\ keyed[1].request_info.body = keyed[2].request_info.body
    /\ relevant_headers(keyed[1].request_info.headers)
           = relevant_headers(keyed[2].request_info.headers)

\* the two requests differ in method, url or a header that is not one of
\* the four
DifferOtherwise ==
    \/ keyed[1].request_info.method # keyed[2].request_info.method
    \/ keyed[1].request_info.url # keyed[2].request_info.url
    \/ relevant_headers(keyed[1].request_info.headers)
           # relevant_headers(keyed[2].request_info.headers)

\* C36: requests that differ only in the selected key or in their
\* Authorization, X-API-Key, User-Agent or Cookie headers get the same cache
\* key; requests that differ in method, url or another header get different
\* cache keys
C36_KeyIgnoresCredentialOnly ==
    BothKeyed =>
        /\ AlikeButCredential => keyed[1].cache_key = keyed[2].cache_key
        /\ DifferOtherwise => keyed[1].cache_key # keyed[2].cache_key

\* the first half of C36 alone
C36_KeyIgnoresCredential ==
    (BothKeyed /\ AlikeButCredential) => keyed[1].cache_key = keyed[2].cache_key

\* the second half of C36 for requests whose methods are spelled alike or
\* differ in more than letter case, whose urls hold no separator and that
\* have no body
C36_KeyTellsPlainRequestsApart ==
    (/\ BothKeyed
     /\ DifferOtherwise
     /\ \A i \in {1, 2} :
           /\ "|" \notin Range(keyed[i].request_info.url)
           /\ keyed[i].request_info.body = <<>>
     /\ keyed[1].request_info.method # keyed[2].request_info.method
           => Upper(keyed[1].request_info.method) # Upper(keyed[2].request_info.method))
        => keyed[1].cache_key # keyed[2].cache_key

\* C37: after any sequence of on_error calls the table tracks at most
\* max_tracked_urls URLs, each once, and the URL of the call just handled is
\* among them
C37_TrackedUrlsBounded ==
    /\ Len(retry.retry_counts) <= retry.max_tracked_urls
    /\ Cardinality(TrackedUrls(retry.retry_counts)) = Len(retry.retry_counts)
    /\ (retry.last.op = "on_error" /\ retry.last.handled)
          => retry.last.url \in TrackedUrls(retry.retry_counts)

\* a full table has just taken a further URL in by evicting another
C37_Witness ==
    /\ retry.last.op = "on_error" /\ retry.last.handled
    /\ retry.last.evicted # {}
    /\ retry.max_tracked_urls = 2
    /\ Len(retry.retry_counts) = 2
    /\ retry.last.url \in TrackedUrls(retry.retry_counts)

\* C38: outside the locked regions the keys that have a metrics record are
\* the keys of the pool
C38_MetricsMatchPool == DOMAIN key_metrics = Range(keys)

\* the same for a rotator whose pool never listed a key twice
C38_MetricsMatchDistinctPool ==
    Cardinality(Range(hist.installed)) = Len(hist.installed)
        => DOMAIN key_metrics = Range(keys)

\* C40: the legacy get_next_key never indexes past the end of the key list
\* and always returns a key of the pool, also right after the removal of a
\* permanently failing key
C40_LegacyKeyInPool ==
    /\ legacy.result # "IndexError"
    /\ legacy.pc = "send" => legacy.key \in Range(legacy.keys)

====
